---------------------------- MODULE Spec2Model ----------------------------
(***************************************************************************)
(* A model of the sampling, integration, jacobian and group composition    *)
(* code of AutoProf (autoprof/models/model_object.py,                      *)
(* autoprof/models/group_model_object.py, autoprof/image/target_image.py). *)
(*                                                                         *)
(* Sky coordinates are integers counted in Unit-s chosen so that every     *)
(* pixel scale the recursion reaches is an even number of units: pixel     *)
(* edges and pixel centers are then integers and all window arithmetic is  *)
(* exact.  Axis 1 of every pair is x, axis 2 is y.                         *)
(***************************************************************************)
EXTENDS Integers, Sequences, FiniteSets, TLC

VARIABLES
    model,      \* the Component_Model under test (attributes and parameters)
    target,     \* the Target_Image the model is attached to
    accum,      \* the caller's accumulator image (sample_image), or NoArg
    outcome,    \* what the last call did: operation, status, returned value
    stack,      \* integrate_model call frames (innermost last)
    trace,      \* bookkeeping of the running integrate_model call tree
    group       \* the Group_Model under test

vars == <<model, target, accum, outcome, stack, trace, group>>

-----------------------------------------------------------------------------
(* Bounds of the model *)

MaxDepth == 2          \* largest integrate_recursion_depth tried
MaxPixels == 2         \* largest window edge, in target pixels
MaxModels == 3         \* longest model_list of a group
MaxSteps == 1          \* jacobian calls that move the parameters of a group
MaxSide == 3           \* largest edge of a Target_Image plane, in pixels

-----------------------------------------------------------------------------
(* Small arithmetic *)

RECURSIVE Pow(_, _)
Pow(b, e) == IF e <= 0 THEN 1 ELSE b * Pow(b, e - 1)

Abs(x) == IF x < 0 THEN -x ELSE x
Min(a, b) == IF a <= b THEN a ELSE b
Max(a, b) == IF a >= b THEN a ELSE b

\* ceil(n / d) for d > 0 and any integer n
CeilDiv(n, d) == -((-n) \div d)

\* torch.round(n / d): round to nearest, ties to the even integer
RoundDiv(n, d) ==
    LET q == n \div d
        r == n % d
    IN  IF 2 * r < d THEN q
        ELSE IF 2 * r > d THEN q + 1
        ELSE IF q % 2 = 0 THEN q ELSE q + 1

\* f itself, evaluated once at every argument (TLC otherwise re-evaluates a
\* function's defining expression at every application)
Force(f) == IF f = f THEN f ELSE f

\* F(v) with v evaluated exactly once, however often F uses it
Bind(v, F(_)) == CHOOSE y \in { F(x) : x \in {v} } : TRUE

Range(s) == { s[i] : i \in DOMAIN s }

RECURSIVE SumSeq(_)
SumSeq(s) == IF s = <<>> THEN 0 ELSE Head(s) + SumSeq(Tail(s))

RECURSIVE SumOver(_, _)
SumOver(f, S) ==
    IF S = {} THEN 0
    ELSE LET x == CHOOSE y \in S : TRUE IN f[x] + SumOver(f, S \ {x})

\* Python's `sub in s` on strings, the strings being sequences of characters
Contains(sub, s) ==
    \E i \in 1..(Len(s) - Len(sub) + 1) : SubSeq(s, i, i + Len(sub) - 1) = sub

S_none == <<"n", "o", "n", "e">>
S_full == <<"f", "u", "l", "l">>
S_window == <<"w", "i", "n", "d", "o", "w">>
S_full_window == S_full \o <<" ">> \o S_window

-----------------------------------------------------------------------------
(* Units *)

\* the integrate factors tried are 2 and 3; one target pixel is
\* 2 * 6^(MaxDepth+1) units, so dividing by psf_upscale (1 or 2) and then
\* MaxDepth times by an integrate factor leaves an even number of units
PixelScale == 2 * Pow(6, MaxDepth + 1)

-----------------------------------------------------------------------------
(* Window: an axis-aligned rectangle, origin and shape in units *)

MakeWindow(origin, shape) == [origin |-> origin, shape |-> shape]

\* Window(center = c, shape = s)
WindowCenterShape(c, s) ==
    MakeWindow(<<c[1] - s[1] \div 2, c[2] - s[2] \div 2>>, s)

WindowCenter(w) ==
    <<w.origin[1] + w.shape[1] \div 2, w.origin[2] + w.shape[2] \div 2>>

WindowEnd(w) == <<w.origin[1] + w.shape[1], w.origin[2] + w.shape[2]>>

WindowArea(w) == w.shape[1] * w.shape[2]

\* a & b: the overlapping region, of zero extent along an axis without overlap
WindowAnd(a, b) ==
    LET lo == [k \in 1..2 |-> Max(a.origin[k], b.origin[k])]
        hi == [k \in 1..2 |-> Min(WindowEnd(a)[k], WindowEnd(b)[k])]
    IN  MakeWindow(lo, [k \in 1..2 |-> Max(0, hi[k] - lo[k])])

\* a | b: the smallest window holding both
WindowOr(a, b) ==
    LET lo == [k \in 1..2 |-> Min(a.origin[k], b.origin[k])]
        hi == [k \in 1..2 |-> Max(WindowEnd(a)[k], WindowEnd(b)[k])]
    IN  MakeWindow(lo, [k \in 1..2 |-> hi[k] - lo[k]])

\* w += border: grow by border on every side
WindowPad(w, border) ==
    MakeWindow([k \in 1..2 |-> w.origin[k] - border[k]],
               [k \in 1..2 |-> w.shape[k] + 2 * border[k]])

\* w.shift_origin(shift)
WindowShift(w, shift) ==
    MakeWindow([k \in 1..2 |-> w.origin[k] + shift[k]], w.shape)

\* w.overlap_frac(other) > 0: the overlap has positive area
OverlapPositive(w, other) == WindowArea(WindowAnd(w, other)) > 0

\* w._get_indices(obj_window, obj_pixelscale): per axis the index range
\* [lo, hi) of w in a grid over obj_window, rounded and clipped to the grid
GetIndices(w, objw, ps) ==
    [k \in 1..2 |->
        [lo |-> Max(0, RoundDiv(w.origin[k] - objw.origin[k], ps)),
         hi |-> Min(RoundDiv(objw.shape[k], ps),
                    RoundDiv(WindowEnd(w)[k] - objw.origin[k], ps))]]

-----------------------------------------------------------------------------
(* Images: a window, a pixel scale and one value per pixel <<ix, iy>> *)

Pix(n) == (0..(n[1] - 1)) \X (0..(n[2] - 1))

GridShape(w, ps) == <<RoundDiv(w.shape[1], ps), RoundDiv(w.shape[2], ps)>>

MakeImage(w, ps, n, data) == [window |-> w, pixelscale |-> ps, n |-> n, data |-> data]

\* Model_Image(pixelscale = ps, window = w): zeros over the window
Model_Image(ps, w) ==
    LET n == GridShape(w, ps)
    IN  MakeImage(w, ps, n, Force([p \in Pix(n) |-> 0]))

\* sky coordinate of the center of pixel p
PixelCenter(img, p) ==
    <<img.window.origin[1] + p[1] * img.pixelscale + img.pixelscale \div 2,
      img.window.origin[2] + p[2] * img.pixelscale + img.pixelscale \div 2>>

\* the sky region of pixel p of an image
PixelBox(img, p) ==
    MakeWindow(<<img.window.origin[1] + p[1] * img.pixelscale,
                 img.window.origin[2] + p[2] * img.pixelscale>>,
               <<img.pixelscale, img.pixelscale>>)

WithinWindow(a, b) ==
    \A k \in 1..2 : /\ b.origin[k] <= a.origin[k]
                    /\ WindowEnd(a)[k] <= WindowEnd(b)[k]

InRange(idx, p) ==
    \A k \in 1..2 : idx[k].lo <= p[k] /\ p[k] < idx[k].hi

SliceLen(r) == Max(0, r.hi - r.lo)

\* a failed operation: the exception leaves no value
Raised == [raised |-> TRUE]
IsRaised(x) == "raised" \in DOMAIN x

\* the two images cover their common region with equally many pixels; if
\* not, combining them is a shape mismatch, which fails
Reconcilable(self, other) ==
    LET mine == GetIndices(other.window, self.window, self.pixelscale)
        theirs == GetIndices(self.window, other.window, other.pixelscale)
    IN  /\ self.pixelscale = other.pixelscale
        /\ \A k \in 1..2 : SliceLen(mine[k]) = SliceLen(theirs[k])

\* one pixel of self combined with the pixel of other that meets it
Apply(how, a, b) ==
    CASE how = "add" -> a + b
      [] how = "sub" -> a - b
      [] how = "replace" -> b

\* self.data where `other` overlaps it combined as `how` says, the rest
\* kept: pixel p of self meets the pixel of other at the same offset into
\* the overlap
CombineData(self, other, mine, theirs, how) ==
    Force([p \in Pix(self.n) |->
        IF InRange(mine, p)
        THEN Apply(how, self.data[p],
                   other.data[<<p[1] + theirs[1].lo - mine[1].lo,
                                p[2] + theirs[2].lo - mine[2].lo>>])
        ELSE self.data[p]])

Combine(selfArg, otherArg, how) ==
    Bind(selfArg, LAMBDA self : Bind(otherArg, LAMBDA other :
        IF ~Reconcilable(self, other) THEN Raised
        ELSE Bind(GetIndices(other.window, self.window, self.pixelscale), LAMBDA mine :
             Bind(GetIndices(self.window, other.window, other.pixelscale), LAMBDA theirs :
                [self EXCEPT !.data = CombineData(self, other, mine, theirs, how)]))))

\* self += other: add other's pixels where the two windows overlap
ImageAdd(self, other) == Combine(self, other, "add")

\* self -= other
ImageSub(self, other) == Combine(self, other, "sub")

\* self.replace(other): overwrite self's pixels where the two windows overlap
ImageReplace(self, other) == Combine(self, other, "replace")

\* img.reduce(scale): bin scale x scale pixels into one by summing them
ImageReduce(imgArg, scale) ==
    Bind(imgArg, LAMBDA img :
        LET n == <<img.n[1] \div scale, img.n[2] \div scale>>
            ps == img.pixelscale * scale
        IN  MakeImage(
                MakeWindow(img.window.origin, <<n[1] * ps, n[2] * ps>>), ps, n,
                Force([p \in Pix(n) |->
                    SumOver(img.data,
                        ((p[1] * scale)..(p[1] * scale + scale - 1))
                            \X ((p[2] * scale)..(p[2] * scale + scale - 1)))])))

\* img.crop(border): drop border[k] pixels on both sides of axis k
ImageCrop(imgArg, border) ==
    Bind(imgArg, LAMBDA img :
        LET n == <<img.n[1] - 2 * border[1], img.n[2] - 2 * border[2]>>
        IN  MakeImage(
                MakeWindow(
                    <<img.window.origin[1] + border[1] * img.pixelscale,
                      img.window.origin[2] + border[2] * img.pixelscale>>,
                    <<n[1] * img.pixelscale, n[2] * img.pixelscale>>),
                img.pixelscale, n,
                Force([p \in Pix(n) |->
                    img.data[<<p[1] + border[1], p[2] + border[2]>>]])))

ImageFlux(imgArg) == Bind(imgArg, LAMBDA img : SumOver(img.data, Pix(img.n)))


-----------------------------------------------------------------------------
(* Component_Model: parameters and the analytic form *)

\* class attribute defaults, model_object.py lines 42-52
integrate_factor_default == 3
integrate_recursion_factor_default == 2

\* _parameter_order of the model kinds tried: the base model has only its
\* center, the profile models add one amplitude
ParamOrder(kind) == IF kind = "base" THEN <<"center">> ELSE <<"center", "amp">>

\* number of vector entries of a parameter: center is a pair
ParamLen(P) == IF P = "center" THEN 2 ELSE 1

\* Component_Model.parameter_order(override_locked = FALSE)
RECURSIVE DropLocked(_, _)
DropLocked(order, lockedSet) ==
    IF order = <<>> THEN <<>>
    ELSE IF Head(order) \in lockedSet THEN DropLocked(Tail(order), lockedSet)
    ELSE <<Head(order)>> \o DropLocked(Tail(order), lockedSet)

parameter_order(m) == DropLocked(ParamOrder(m.kind), m.plocked)

\* parameter_vector_len
RECURSIVE LenOf(_)
LenOf(order) == IF order = <<>> THEN <<>> ELSE <<ParamLen(Head(order))>> \o LenOf(Tail(order))

parameter_vector_len(m) == LenOf(parameter_order(m))

\* get_parameter_vector: the values of the free parameters, in order
RECURSIVE VectorOf(_, _)
VectorOf(order, m) ==
    IF order = <<>> THEN <<>>
    ELSE (IF Head(order) = "center" THEN m.center ELSE <<m.amp>>)
            \o VectorOf(Tail(order), m)

get_parameter_vector(m) == VectorOf(parameter_order(m), m)

\* set_parameters(vector): write the vector back into the free parameters
RECURSIVE SetFrom(_, _, _)
SetFrom(order, vec, m) ==
    IF order = <<>> THEN m
    ELSE IF Head(order) = "center"
         THEN SetFrom(Tail(order), SubSeq(vec, 3, Len(vec)),
                      [m EXCEPT !.center = <<vec[1], vec[2]>>])
         ELSE SetFrom(Tail(order), Tail(vec), [m EXCEPT !.amp = vec[1]])

set_parameters(m, vec) == SetFrom(parameter_order(m), vec, m)

\* the analytic form at sky coordinate c.  The base model is zero
\* everywhere; "flat" is a constant surface; "peak" falls off linearly
\* with the Chebyshev distance from the center and vanishes beyond one
\* target pixel
Profile(m, c) ==
    LET d == Max(Abs(c[1] - m.center[1]), Abs(c[2] - m.center[2]))
    IN  CASE m.kind = "base" -> 0
          [] m.kind = "flat" -> m.amp
          [] OTHER -> IF d < PixelScale THEN m.amp * (PixelScale - d) ELSE 0

\* evaluate_model(image): the analytic form at every pixel center
evaluate_model(m, imageArg) ==
    Bind(imageArg, LAMBDA image :
        Force([p \in Pix(image.n) |-> Profile(m, PixelCenter(image, p))]))

\* image.data += evaluate_model(image) on a fresh image over window w
Evaluated(m, ps, w) ==
    Bind(Model_Image(ps, w), LAMBDA blank :
        [blank EXCEPT !.data = evaluate_model(m, blank)])

-----------------------------------------------------------------------------
(* Component_Model.integrate_model *)

\* the early returns were the integrate_mode not looked at
IntegrateReturnsIgnoringMode(m, working_image, window, depth) ==
    \/ depth <= 0
    \/ ~OverlapPositive(window, working_image.window)

\* the early returns, lines 277-284
IntegrateReturns(m, working_image, window, depth) ==
    \/ depth <= 0
    \/ Contains(S_none, m.integrate_mode)
    \/ ~OverlapPositive(window, working_image.window)

\* the fine image over window & working_image.window, lines 286-294
IntegrateImage(m, working_image, window) ==
    LET working_window == WindowAnd(window, working_image.window)
        integrate_pixelscale == working_image.pixelscale \div m.integrate_factor
    IN  Evaluated(m, integrate_pixelscale, working_window)

\* torch.isclose(x % 1, 0.5, atol = 0.25) for x = (center - origin) / ps,
\* with isclose's default rtol = 1e-5:  |x % 1 - 0.5| <= 0.25 + 1e-5 * 0.5
WindowAlign(center, origin, ps) ==
    LET r == (center - origin) % ps
    IN  100000 * Abs(2 * r - ps) <= 50001 * ps

\* the window of the nested call were the parity of its shape left as the
\* division by the recursion factor gives it
RecursiveWindowUnadjusted(m, window, integrate_image) ==
    LET ips == integrate_image.pixelscale
        shape == [k \in 1..2 |->
            RoundDiv(window.shape[k], ips * m.integrate_recursion_factor) * ips]
    IN  WindowCenterShape(WindowCenter(window), shape)

\* the window of the nested call, lines 297-323
RecursiveWindow(m, window, integrate_image) ==
    LET ips == integrate_image.pixelscale
        c == WindowCenter(window)
        shape == [k \in 1..2 |->
            LET rs == RoundDiv(window.shape[k], ips * m.integrate_recursion_factor)
                align == IF WindowAlign(c[k], integrate_image.window.origin[k], ips)
                         THEN 1 ELSE 0
            IN  (rs + 1 - (rs % 2) + 1 - align) * ips]
    IN  WindowCenterShape(c, shape)

\* the depth the nested call is made with, line 324
NestedDepthSame(depth) == depth
NestedDepth(depth) == depth - 1

\* line 327: working_image.replace(integrate_image.reduce(integrate_factor))
IntegrateFinish(m, working_image, integrate_image) ==
    ImageReplace(working_image, ImageReduce(integrate_image, m.integrate_factor))

\* integrate_model(working_image, window, depth): the image it leaves behind
RECURSIVE integrate_model(_, _, _, _)
integrate_model(m, working_image, window, depth) ==
    IF IntegrateReturns(m, working_image, window, depth) THEN working_image
    ELSE Bind(IntegrateImage(m, working_image, window), LAMBDA integrate_image :
         Bind(integrate_model(m, integrate_image,
                              RecursiveWindow(m, window, integrate_image),
                              NestedDepth(depth)), LAMBDA refined :
            IF IsRaised(refined) THEN Raised
            ELSE IntegrateFinish(m, working_image, refined)))

-----------------------------------------------------------------------------
(* Target_Image: what the sampling code reads of it *)

NoPSF == [none |-> TRUE]

\* an attribute that was never assigned: reading it is an AttributeError
Missing == [missing |-> TRUE]

\* has_psf, target_image.py lines 108-113
has_psf(tgt) == tgt.psf \notin {NoPSF, Missing}

\* psf_border_int, lines 86-102: ceil((1 + flip(psf.shape) / psf_upscale) / 2),
\* defined only when the image has a PSF (self.psf raises otherwise)
psf_border_int(tgt) ==
    [k \in 1..2 |-> CeilDiv(tgt.psf_upscale + tgt.psf.n[k], 2 * tgt.psf_upscale)]

\* psf_border, lines 104-106
psf_border(tgt) == [k \in 1..2 |-> tgt.pixelscale * psf_border_int(tgt)[k]]

\* pixel_center_alignment(): where a pixel center lies relative to the
\* origin, as a number of units within one pixel
pixel_center_alignment(tgt) ==
    [k \in 1..2 |-> (tgt.window.origin[k] + tgt.pixelscale \div 2) % tgt.pixelscale]

\* make_model_image(): an empty image over the model's window
make_model_image(m, tgt) == Model_Image(tgt.pixelscale, m.window)

\* fft_convolve_torch(data, kernel, img_prepadded = True): every pixel
\* becomes the kernel-weighted sum of its neighbours, pixels beyond the
\* edge counting as zero.  The kernel holds integer weights; neither its
\* normalisation nor its Lanczos resampling by the sub-pixel shift is
\* modelled, they change values inside the padded image only
Convolve(imgArg, psf) ==
    Bind(imgArg, LAMBDA img :
        LET hx == psf.n[1] \div 2
            hy == psf.n[2] \div 2
            At(q) == IF 0 <= q[1] /\ q[1] < img.n[1] /\ 0 <= q[2] /\ q[2] < img.n[2]
                     THEN img.data[q] ELSE 0
            Term(p) == [d \in Pix(psf.n) |->
                            psf.data[d] * At(<<p[1] + hx - d[1], p[2] + hy - d[2]>>)]
        IN  [img EXCEPT !.data =
                Force([p \in Pix(img.n) |-> SumOver(Term(p), Pix(psf.n))])])

-----------------------------------------------------------------------------
(* Component_Model.sample *)

NoArg == [none |-> TRUE]

\* what a call leaves behind: how it ended, the image it returned, and the
\* working image before (direct) and after (integrated) integrate_model
Result(status, image, direct, integrated) ==
    [status |-> status, image |-> image, direct |-> direct, integrated |-> integrated]

\* a call that raised: sample_image is as the raise left it
Failed(status, sample_image) == Result(status, sample_image, Raised, Raised)

\* line 193: the unsupported mode
PsfWindowRequestedNever(m) == FALSE
PsfWindowRequested(m) == Contains(S_window, m.psf_mode)

\* line 196
PsfFullRequested(m) == Contains(S_full, m.psf_mode)

\* line 198: reading target.psf_border of a target without a PSF raises
PsfMissing(tgt) == ~has_psf(tgt)

\* lines 203-210: offset of the center from the nearest pixel center of the
\* working grid
CenterShift(m, tgt, working_pixelscale) ==
    [k \in 1..2 |->
        LET a == pixel_center_alignment(tgt)[k]
            n == RoundDiv(m.center[k] * tgt.pixelscale - a * working_pixelscale,
                          working_pixelscale * tgt.pixelscale)
        IN  m.center[k]
                - (n * working_pixelscale
                    + (a * working_pixelscale) \div tgt.pixelscale)]

\* the unconvolved branch were line 260 an assignment: the working image
\* written over sample_image
SampleNoneOverwrite(m, sample_image, working_window, iw) ==
    Bind(Evaluated(m, sample_image.pixelscale, working_window), LAMBDA direct :
    Bind(integrate_model(m, direct, iw, m.integrate_recursion_depth),
         LAMBDA working_image :
        IF IsRaised(working_image) THEN Failed("RuntimeError", sample_image)
        ELSE Bind(ImageReplace(sample_image, working_image), LAMBDA sum :
                IF IsRaised(sum) THEN Failed("RuntimeError", sample_image)
                ELSE Result("ok", sum, direct, working_image))))

\* lines 246-260: no convolution.  iw is the window integrate_window()
\* answers for the working image
SampleNone(m, sample_image, working_window, iw) ==
    Bind(Evaluated(m, sample_image.pixelscale, working_window), LAMBDA direct :
    Bind(integrate_model(m, direct, iw, m.integrate_recursion_depth),
         LAMBDA working_image :
        IF IsRaised(working_image) THEN Failed("RuntimeError", sample_image)
        ELSE Bind(ImageAdd(sample_image, working_image), LAMBDA sum :
                IF IsRaised(sum) THEN Failed("RuntimeError", sample_image)
                ELSE Result("ok", sum, direct, working_image))))

\* the contribution were the padding border left on it
ContributionUncropped(tgt, convolved, center_shift) ==
    ImageReduce([convolved EXCEPT !.window =
                    WindowShift(@, [k \in 1..2 |-> -center_shift[k]])],
                tgt.psf_upscale)

\* lines 240-245: shift the window back, reduce, crop the border
Contribution(tgt, convolved, center_shift) ==
    ImageCrop(
        ImageReduce([convolved EXCEPT !.window =
                        WindowShift(@, [k \in 1..2 |-> -center_shift[k]])],
                    tgt.psf_upscale),
        psf_border_int(tgt))

\* lines 196-245: convolution over the whole working window
SampleFull(m, tgt, sample_image, working_window, iw) ==
    LET working_pixelscale == sample_image.pixelscale \div tgt.psf_upscale
        center_shift == CenterShift(m, tgt, working_pixelscale)
        padded == WindowShift(WindowPad(working_window, psf_border(tgt)), center_shift)
    IN  Bind(Evaluated(m, working_pixelscale, padded), LAMBDA direct :
        Bind(integrate_model(m, direct, iw, m.integrate_recursion_depth),
             LAMBDA integrated :
            IF IsRaised(integrated) THEN Failed("RuntimeError", sample_image)
            ELSE Bind(Convolve(integrated, tgt.psf), LAMBDA convolved :
                 Bind(ImageAdd(sample_image, Contribution(tgt, convolved, center_shift)),
                      LAMBDA sum :
                    IF IsRaised(sum) THEN Failed("RuntimeError", sample_image)
                    ELSE Result("ok", sum, direct, integrated)))))

\* lines 183-191: the image sampled into and the window worked on
SampleImage(m, tgt, sample_image_arg) ==
    IF sample_image_arg = NoArg THEN make_model_image(m, tgt) ELSE sample_image_arg

WorkingWindow(sample_image, sample_window) ==
    IF sample_window = NoArg THEN sample_image.window
    ELSE WindowAnd(sample_window, sample_image.window)

\* The Window objects a call of sample() can reach, by the name of the
\* object: the caller's sample_window ("arg"), the window of sample_image
\* ("image") and the window the call works on ("work", made by the call)
WindowStore(sample_image, sample_window) ==
    [arg |-> sample_window, image |-> sample_image.window, work |-> NoArg]

\* ref.make_copy(): a new object holding the value of object ref
make_copy(st, ref) == [st |-> [st EXCEPT !.work = st[ref]], ref |-> "work"]

\* lines 188-191: the object working_window names.  `&` builds a new
\* Window from its operands
WorkingRef(st) ==
    IF st.arg = NoArg THEN make_copy(st, "image")
    ELSE LET copied == make_copy(st, "arg")
         IN  [st |-> [copied.st EXCEPT
                        !.work = WindowAnd(copied.st[copied.ref], copied.st.image)],
              ref |-> "work"]

\* the Window objects after the call: lines 198 and 211 change
\* working_window in place (`+=`, shift_origin), nothing else writes a
\* window the caller can see
WindowsAfter(m, tgt, sample_image, sample_window) ==
    LET working == WorkingRef(WindowStore(sample_image, sample_window))
    IN  IF PsfWindowRequested(m) \/ ~PsfFullRequested(m) \/ PsfMissing(tgt)
        THEN working.st
        ELSE [working.st EXCEPT ![working.ref] =
                WindowShift(WindowPad(@, psf_border(tgt)),
                    CenterShift(m, tgt, sample_image.pixelscale \div tgt.psf_upscale))]

\* sample() were a missing PSF answered by unconvolved sampling
sampleFallback(m, tgt, sample_image_arg, sample_window, iw) ==
    Bind(SampleImage(m, tgt, sample_image_arg), LAMBDA sample_image :
        IF PsfWindowRequested(m) THEN Failed("NotImplementedError", sample_image)
        ELSE IF PsfFullRequested(m) /\ ~PsfMissing(tgt)
             THEN SampleFull(m, tgt, sample_image,
                             WorkingWindow(sample_image, sample_window), iw)
        ELSE SampleNone(m, sample_image,
                        WorkingWindow(sample_image, sample_window), iw))

\* sample(sample_image, sample_window), lines 168-262: the status and the
\* image returned (the accumulator after the call)
sample(m, tgt, sample_image_arg, sample_window, iw) ==
    Bind(SampleImage(m, tgt, sample_image_arg), LAMBDA sample_image :
        IF PsfWindowRequested(m) THEN Failed("NotImplementedError", sample_image)
        ELSE IF PsfFullRequested(m)
             THEN IF PsfMissing(tgt) THEN Failed("AttributeError", sample_image)
                  ELSE SampleFull(m, tgt, sample_image,
                                  WorkingWindow(sample_image, sample_window), iw)
        ELSE SampleNone(m, sample_image,
                        WorkingWindow(sample_image, sample_window), iw))

-----------------------------------------------------------------------------
(* Component_Model.jacobian *)

\* the derivative planes are modelled by forward differences of the sampled
\* image: one step of a parameter is a sixth of a pixel for a center
\* coordinate and one unit of amplitude
DerivStep(P) == IF P = "center" THEN PixelScale \div 6 ELSE 1

RECURSIVE StepsOf(_)
StepsOf(order) ==
    IF order = <<>> THEN <<>>
    ELSE [i \in 1..ParamLen(Head(order)) |-> DerivStep(Head(order))]
            \o StepsOf(Tail(order))

\* the plane of vector entry i: the change of model() under a step of entry i
Moved(m, i) ==
    LET vec == get_parameter_vector(m)
        h == StepsOf(parameter_order(m))[i]
    IN  set_parameters(m, [vec EXCEPT ![i] = @ + h])

DerivPlane(m, tgt, iw, i) ==
    Bind(sample(m, tgt, NoArg, NoArg, iw), LAMBDA here :
    Bind(sample(Moved(m, i), tgt, NoArg, NoArg, iw), LAMBDA there :
        IF here.status # "ok" THEN here
        ELSE IF there.status # "ok" THEN there
        ELSE [here EXCEPT !.image = ImageSub(there.image, here.image)]))

\* the planes of vector entries from..to, or the first failure among them
Planes(m, tgt, iw, from, to) ==
    Bind(Force([i \in 1..(to - from + 1) |-> DerivPlane(m, tgt, iw, from + i - 1)]),
         LAMBDA ps :
        LET bad == {i \in 1..(to - from + 1) : ps[i].status # "ok"}
        IN  IF bad # {}
            THEN [status |-> ps[CHOOSE i \in bad : TRUE].status, planes |-> <<>>]
            ELSE [status |-> "ok",
                  planes |-> [i \in 1..(to - from + 1) |-> ps[i].image]])

\* lines 356-371, mode "full": all planes in one differentiation
FullJacobian(m, tgt, iw) == Planes(m, tgt, iw, 1, Len(get_parameter_vector(m)))

\* lines 372-401, mode "single": the planes of one parameter at a time,
\* params[start : start + V], concatenated in parameter order
RECURSIVE SingleJacobian(_, _, _, _, _)
SingleJacobian(m, tgt, iw, order, start) ==
    IF order = <<>> THEN [status |-> "ok", planes |-> <<>>]
    ELSE Bind(Planes(m, tgt, iw, start + 1, start + ParamLen(Head(order))),
              LAMBDA sub :
         Bind(SingleJacobian(m, tgt, iw, Tail(order), start + ParamLen(Head(order))),
              LAMBDA rest :
            IF sub.status # "ok" THEN sub
            ELSE IF rest.status # "ok" THEN rest
            ELSE [status |-> "ok", planes |-> sub.planes \o rest.planes]))

\* lines 356-407: the dispatch on jacobian_mode
JacobianByMode(m, tgt, iw) ==
    CASE m.jacobian_mode = "full" -> FullJacobian(m, tgt, iw)
      [] m.jacobian_mode = "single" ->
            SingleJacobian(m, tgt, iw, parameter_order(m), 0)
      [] m.jacobian_mode = "chunk" -> [status |-> "NotImplementedError", planes |-> <<>>]
      [] OTHER -> [status |-> "ValueError", planes |-> <<>>]

\* jacobian(parameters), lines 329-415: the model after the call, how the
\* call ended and the planes of the Jacobian_Image it returned.  A vector
\* passed as `parameters` arrives as [vec |-> vector], no vector as NoArg
jacobian(m, tgt, parameters, iw) ==
    Bind(IF parameters # NoArg THEN set_parameters(m, parameters.vec) ELSE m,
         LAMBDA set :
    Bind(JacobianByMode(set, tgt, iw), LAMBDA jac :
        [model |-> set, status |-> jac.status, planes |-> jac.planes]))

-----------------------------------------------------------------------------
(* integrate_model, one call or return per step (specification             *)
(* SpecIntegrate).  A frame is a running call: its working image, its      *)
(* window, its depth and where it stands ("enter": at line 277, "wait":    *)
(* inside the nested call of line 318, "done": returned).                  *)

Unused == [unused |-> TRUE]

Frame(image, window, depth, pc) ==
    [image |-> image, window |-> window, depth |-> depth, pc |-> pc]

Top == stack[Len(stack)]

\* a model as far as integrate_model reads it
BaseModel ==
    [name |-> <<"m">>, kind |-> "peak", locked |-> FALSE, plocked |-> {},
     center |-> <<PixelScale \div 2, PixelScale \div 2>>, amp |-> 1,
     window |-> MakeWindow(<<0, 0>>, <<PixelScale, PixelScale>>),
     psf_mode |-> S_none, integrate_mode |-> S_window,
     integrate_window_size |-> 1,
     integrate_factor |-> integrate_factor_default,
     integrate_recursion_factor |-> integrate_recursion_factor_default,
     integrate_recursion_depth |-> MaxDepth,
     jacobian_mode |-> "full"]

IntegrateModels ==
    { [BaseModel EXCEPT !.integrate_mode = im, !.integrate_factor = f,
                        !.integrate_recursion_factor = rf,
                        !.integrate_recursion_depth = d] :
        im \in {S_none, S_window}, f \in {2, 3}, rf \in {1, 2, 3},
        d \in 0..MaxDepth }

\* the images integrate_model is called on: the analytic form evaluated
\* over 1..MaxPixels square target pixels
WorkingImages(m) ==
    { LET img == Model_Image(PixelScale,
                    MakeWindow(<<0, 0>>, <<n * PixelScale, n * PixelScale>>))
      IN  [img EXCEPT !.data = evaluate_model(m, img)] : n \in 1..MaxPixels }

\* the windows it is called with: one or two pixels wide, inside the
\* image, across its edge, off a pixel boundary, or clear of the image
IntegrateWindows ==
    { MakeWindow(<<ox, oy>>, <<sx, sy>>) :
        ox \in {-PixelScale, 0, PixelScale \div 2, MaxPixels * PixelScale},
        sx \in {PixelScale, 2 * PixelScale},
        oy \in {0, PixelScale \div 2}, sy \in {PixelScale} }

InitIntegrate ==
    /\ model \in IntegrateModels
    /\ \E img \in WorkingImages(model), w \in IntegrateWindows :
          /\ stack = <<Frame(img, w, model.integrate_recursion_depth, "enter")>>
          /\ trace = [evals |-> 0, image0 |-> img, window0 |-> w]
    /\ target = Unused
    /\ accum = Unused
    /\ outcome = Unused
    /\ group = Unused

\* lines 277-284: the call returns at once
IntegrateExit ==
    /\ Top.pc = "enter"
    /\ IntegrateReturns(model, Top.image, Top.window, Top.depth)
    /\ stack' = [stack EXCEPT ![Len(stack)].pc = "done"]
    /\ UNCHANGED <<model, target, accum, outcome, trace, group>>

\* lines 286-325: evaluate the fine image and make the nested call
IntegrateEnter ==
    /\ Top.pc = "enter"
    /\ ~IntegrateReturns(model, Top.image, Top.window, Top.depth)
    /\ LET integrate_image == IntegrateImage(model, Top.image, Top.window)
       IN  stack' = Append([stack EXCEPT ![Len(stack)].pc = "wait"],
                        Frame(integrate_image,
                              RecursiveWindow(model, Top.window, integrate_image),
                              NestedDepth(Top.depth), "enter"))
    /\ trace' = [trace EXCEPT !.evals = @ + 1]
    /\ UNCHANGED <<model, target, accum, outcome, group>>

\* line 327: the nested call has returned; fold its image into the caller's
IntegrateResume ==
    /\ Len(stack) > 1
    /\ Top.pc = "done"
    /\ \E folded \in {IntegrateFinish(model, stack[Len(stack) - 1].image, Top.image)} :
          /\ ~IsRaised(folded)
          /\ stack' = [SubSeq(stack, 1, Len(stack) - 1) EXCEPT
                          ![Len(stack) - 1] = [@ EXCEPT !.pc = "done", !.image = folded]]
    /\ UNCHANGED <<model, target, accum, outcome, trace, group>>

\* line 327 fails on a shape mismatch: the exception unwinds every caller,
\* none of which has touched its working image yet
IntegrateRaise ==
    /\ Len(stack) > 1
    /\ Top.pc = "done"
    /\ IsRaised(IntegrateFinish(model, stack[Len(stack) - 1].image, Top.image))
    /\ stack' = <<[stack[1] EXCEPT !.pc = "raised"]>>
    /\ UNCHANGED <<model, target, accum, outcome, trace, group>>

NextIntegrate == IntegrateExit \/ IntegrateEnter \/ IntegrateResume \/ IntegrateRaise

SpecIntegrate == InitIntegrate /\ [][NextIntegrate]_vars

IntegrateDone == Len(stack) = 1 /\ Top.pc = "done"


-----------------------------------------------------------------------------
(* Specification Spec: one Component_Model on one target, sampled by the   *)
(* caller; specification SpecJacobian: the caller asks for its jacobian.   *)

TargetWindow ==
    MakeWindow(<<0, 0>>, <<MaxPixels * PixelScale, MaxPixels * PixelScale>>)

\* a 3 x 3 kernel, heaviest at its center
PSF3 ==
    [n |-> <<3, 3>>,
     data |-> [d \in Pix(<<3, 3>>) |->
                IF d = <<1, 1>> THEN 2 ELSE IF d[1] = 1 \/ d[2] = 1 THEN 1 ELSE 0]]

Targets ==
    { [window |-> TargetWindow, pixelscale |-> PixelScale, psf |-> p, psf_upscale |-> u] :
        p \in {NoPSF, PSF3}, u \in {1, 2} }

Centers ==
    { <<PixelScale \div 2, PixelScale \div 2>>,
      <<PixelScale + PixelScale \div 6, PixelScale>> }

\* integration switched off by mode, by depth, or on with depth 1..MaxDepth
IntegrateSettings ==
    {<<S_none, MaxDepth>>} \cup { <<S_window, d>> : d \in 0..MaxDepth }

\* models to sample: every PSF mode
SampleModels ==
    { [BaseModel EXCEPT !.window = TargetWindow, !.center = c, !.psf_mode = pm,
                        !.integrate_mode = is[1],
                        !.integrate_recursion_depth = is[2]] :
        c \in Centers, pm \in {S_none, S_full, S_window, S_full_window},
        is \in IntegrateSettings }

\* models to differentiate: every jacobian mode, with and without a locked
\* parameter
JacobianModels ==
    { [BaseModel EXCEPT !.window = TargetWindow, !.jacobian_mode = jm,
                        !.plocked = pl, !.psf_mode = pm, !.center = c,
                        !.integrate_recursion_depth = 1] :
        jm \in {"full", "single", "finite", "chunk", "other"},
        pl \in {{}, {"center"}, {"amp"}, {"center", "amp"}},
        pm \in {S_none, S_full}, c \in Centers }

\* the caller's accumulator: none, or an image over the target's window
\* that is empty or already holds 5 in every pixel
Accumulators ==
    {NoArg} \cup
    { [Model_Image(PixelScale, TargetWindow) EXCEPT
            !.data = [p \in DOMAIN @ |-> v]] : v \in {0, 5} }

SampleWindows ==
    {NoArg, MakeWindow(<<PixelScale, 0>>, <<PixelScale, PixelScale>>)}

\* the windows integrate_window() may answer: one or two target pixels
\* wide, centered on the model's center or on the center of its pixel
IntegrateWindowChoices(m) ==
    { WindowCenterShape(c, <<k * PixelScale, k * PixelScale>>) :
        c \in {m.center,
               [i \in 1..2 |-> (m.center[i] \div PixelScale) * PixelScale
                                  + PixelScale \div 2]},
        k \in {1, 2} }

\* the parameter vectors a caller passes to jacobian(): the free
\* parameters, each moved by one step
ParameterChoices(m) ==
    {NoArg} \cup
    { [vec |-> [i \in 1..Len(get_parameter_vector(m)) |->
            get_parameter_vector(m)[i] + StepsOf(parameter_order(m))[i]]] }

Idle == [op |-> "none"]

Init ==
    /\ model \in SampleModels
    /\ target \in Targets
    /\ accum \in Accumulators
    /\ outcome = Idle
    /\ stack = Unused
    /\ trace = Unused
    /\ group = Unused

\* sample(accum, sw): a caller's accumulator is the sample_image the call
\* leaves behind
Sample(sw, iw) ==
    /\ outcome.op = "none"
    /\ outcome' = [call |-> sample(model, target, accum, sw, iw),
                   op |-> "sample", before |-> accum, model0 |-> model,
                   target0 |-> target, sample_window |-> sw, iw |-> iw,
                   windows |-> WindowsAfter(model, target,
                                  SampleImage(model, target, accum), sw)]
    /\ accum' = IF accum # NoArg THEN outcome'.call.image ELSE accum
    /\ UNCHANGED <<model, target, stack, trace, group>>

Next == \E sw \in SampleWindows, iw \in IntegrateWindowChoices(model) : Sample(sw, iw)

Spec == Init /\ [][Next]_vars

InitJacobian ==
    /\ model \in JacobianModels
    /\ target \in {t \in Targets : t.psf_upscale = 1}
    /\ accum = NoArg
    /\ outcome = Idle
    /\ stack = Unused
    /\ trace = Unused
    /\ group = Unused

\* jacobian(parameters)
Jacobian(parameters, iw) ==
    /\ outcome.op = "none"
    /\ outcome' = [call |-> jacobian(model, target, parameters, iw),
                   op |-> "jacobian", model0 |-> model,
                   parameters |-> parameters, iw |-> iw]
    /\ model' = outcome'.call.model
    /\ UNCHANGED <<target, accum, stack, trace, group>>

NextJacobian ==
    \E ps \in ParameterChoices(model), iw \in IntegrateWindowChoices(model) :
        Jacobian(ps, iw)

SpecJacobian == InitJacobian /\ [][NextJacobian]_vars

-----------------------------------------------------------------------------
(* Specification SpecFull: sample() in 'full' PSF mode on targets with    *)
(* kernels of every odd size up to MaxKernel and every psf_upscale up to  *)
(* MaxUpscale.                                                            *)

MaxKernel == 5
MaxUpscale == 3

\* a kernel of nx x ny weights, heaviest at its center
Kernel(n) ==
    [n |-> n,
     data |-> [d \in Pix(n) |->
                IF d = <<n[1] \div 2, n[2] \div 2>> THEN 2 ELSE 1]]

OddSizes == { k \in 1..MaxKernel : k % 2 = 1 }

FullTargets ==
    { [window |-> TargetWindow, pixelscale |-> PixelScale,
       psf |-> Kernel(<<nx, ny>>), psf_upscale |-> u] :
        nx \in OddSizes, ny \in OddSizes, u \in 1..MaxUpscale }

FullModels ==
    { [BaseModel EXCEPT !.window = TargetWindow, !.center = c, !.psf_mode = S_full,
                        !.integrate_mode = is[1],
                        !.integrate_recursion_depth = is[2]] :
        c \in Centers, is \in {<<S_none, 1>>, <<S_window, 1>>} }

InitFull ==
    /\ model \in FullModels
    /\ target \in FullTargets
    /\ accum \in Accumulators
    /\ outcome = Idle
    /\ stack = Unused
    /\ trace = Unused
    /\ group = Unused

SpecFull == InitFull /\ [][Next]_vars

-----------------------------------------------------------------------------
(* Group_Model (group_model_object.py).  A group is its model_list, a     *)
(* sequence of Component_Models, and the window update_window() last set. *)

NoWindow == [none |-> TRUE]

\* AutoProf_Model.__init__: a name holding '|' fails its assertion
NameAccepted(name) == ~Contains(<<"|">>, name)

\* update_window(include_locked = False), lines 62-71
RECURSIVE UnionWindow(_, _)
UnionWindow(models, new_window) ==
    IF models = <<>> THEN new_window
    ELSE IF Head(models).locked THEN UnionWindow(Tail(models), new_window)
    ELSE IF new_window = NoWindow
         THEN UnionWindow(Tail(models), Head(models).window)
         ELSE UnionWindow(Tail(models), WindowOr(new_window, Head(models).window))

update_window(g) == [g EXCEPT !.window = UnionWindow(g.model_list, NoWindow)]

\* add_model(model), lines 58-60
add_model(g, m) == update_window([g EXCEPT !.model_list = Append(@, m)])

\* Group_Model(name, model_list = []), lines 28-33
NewGroup == update_window([model_list |-> <<>>, window |-> NoWindow])

\* model.locked = value on sub-model i: the group is not told
SetLocked(g, i, value) == [g EXCEPT !.model_list[i].locked = value]

\* f"{model.name}|{p}"
Key(name, p) == name \o <<"|">> \o <<p>>

\* model.parameters of a Component_Model: every parameter of its kind
ParameterNames(m) == ParamOrder(m.kind)

\* the keys `parameters` assigns, in assignment order, lines 114-123
RECURSIVE ParameterKeys(_)
ParameterKeys(models) ==
    IF models = <<>> THEN <<>>
    ELSE [i \in 1..Len(ParameterNames(Head(models))) |->
                Key(Head(models).name, ParameterNames(Head(models))[i])]
            \o ParameterKeys(Tail(models))

\* the dict `parameters` returns: a later assignment to a key replaces the
\* earlier one.  Every value is <<position in model_list, parameter>>
RECURSIVE ParametersFrom(_, _, _)
ParametersFrom(models, at, params) ==
    IF models = <<>> THEN params
    ELSE ParametersFrom(Tail(models), at + 1,
            [k \in DOMAIN params \cup
                   {Key(Head(models).name, P) : P \in Range(ParameterNames(Head(models)))} |->
                IF \E P \in Range(ParameterNames(Head(models))) : k = Key(Head(models).name, P)
                THEN <<at, CHOOSE P \in Range(ParameterNames(Head(models))) :
                                k = Key(Head(models).name, P)>>
                ELSE params[k]])

parameters(g) == ParametersFrom(g.model_list, 1, [k \in {} |-> <<>>])

\* all_keys of get_parameters_representation(exclude_locked = True), lines
\* 125-135: the free parameters of every sub-model
RECURSIVE RepresentationKeys(_)
RepresentationKeys(models) ==
    IF models = <<>> THEN <<>>
    ELSE [i \in 1..Len(parameter_order(Head(models))) |->
                Key(Head(models).name, parameter_order(Head(models))[i])]
            \o RepresentationKeys(Tail(models))

\* the parameter_order property, lines 73-80.  It iterates
\* model.parameter_order of every sub-model that is not locked; on a
\* Component_Model that attribute is the method of model_object.py line 92,
\* which cannot be iterated
group_parameter_order(g) ==
    IF \E i \in 1..Len(g.model_list) : ~g.model_list[i].locked
    THEN [status |-> "TypeError", order |-> <<>>]
    ELSE [status |-> "ok", order |-> <<>>]

\* the free parameters of the group: those of its sub-models that are not
\* locked, in model_list order
RECURSIVE UnlockedModels(_)
UnlockedModels(models) ==
    IF models = <<>> THEN <<>>
    ELSE IF Head(models).locked THEN UnlockedModels(Tail(models))
    ELSE <<Head(models)>> \o UnlockedModels(Tail(models))

RECURSIVE Concat(_)
Concat(ss) == IF ss = <<>> THEN <<>> ELSE Head(ss) \o Concat(Tail(ss))

\* parameter_vector_len of the group: one length per free parameter
group_parameter_vector_len(g) ==
    Concat([i \in 1..Len(UnlockedModels(g.model_list)) |->
                parameter_vector_len(UnlockedModels(g.model_list)[i])])

\* get_parameter_vector of the group
group_parameter_vector(g) ==
    Concat([i \in 1..Len(UnlockedModels(g.model_list)) |->
                get_parameter_vector(UnlockedModels(g.model_list)[i])])

\* one step of every entry of the group's vector
GroupSteps(g) ==
    Concat([i \in 1..Len(UnlockedModels(g.model_list)) |->
                StepsOf(parameter_order(UnlockedModels(g.model_list)[i]))])

\* make_model_image() of the group: zeros over its window
group_make_model_image(g, tgt) == Model_Image(tgt.pixelscale, g.window)

GroupResult(status, image) == [status |-> status, image |-> image]

\* lines 106-110: the loop over model_list.  own: sample_window, every
\* sub-model samples its own image, which is added; otherwise every
\* sub-model samples into sample_image
RECURSIVE SampleEach(_, _, _, _)
SampleEach(models, tgt, sample_image, own) ==
    IF models = <<>> THEN GroupResult("ok", sample_image)
    ELSE Bind(IF own THEN sample(Head(models), tgt, NoArg, NoArg, Head(models).window)
              ELSE sample(Head(models), tgt, sample_image, NoArg, Head(models).window),
              LAMBDA sub :
            IF sub.status # "ok" THEN GroupResult(sub.status, sample_image)
            ELSE IF ~own THEN SampleEach(Tail(models), tgt, sub.image, own)
            ELSE Bind(ImageAdd(sample_image, sub.image), LAMBDA sum :
                    IF IsRaised(sum) THEN GroupResult("RuntimeError", sample_image)
                    ELSE SampleEach(Tail(models), tgt, sum, own)))

\* Group_Model.sample(sample_image), lines 98-112.  A group without a
\* window has nothing to make its image over
group_sample(g, tgt, sample_image_arg) ==
    IF sample_image_arg = NoArg
    THEN IF g.window = NoWindow THEN GroupResult("AttributeError", Raised)
         ELSE SampleEach(g.model_list, tgt, group_make_model_image(g, tgt), TRUE)
    ELSE SampleEach(g.model_list, tgt, sample_image_arg, FALSE)

\* np.sum(parameter_vector_len[ivstart : ivstart + n]), line 151: the slice
\* stops at the end of the list
SliceSum(lens, ivstart, n) ==
    SumSeq(SubSeq(lens, ivstart + 1, Min(ivstart + n, Len(lens))))

\* parameters[vstart:vend]
Slice(vec, vstart, vend) == SubSeq(vec, vstart + 1, Min(vend, Len(vec)))

\* Component_Model.jacobian of a sub-model: set_parameters fails on a
\* vector shorter than the model's own
sub_jacobian(m, tgt, vec) ==
    IF Len(vec) < Len(get_parameter_vector(m))
    THEN [model |-> m, status |-> "RuntimeError", planes |-> <<>>]
    ELSE jacobian(m, tgt, [vec |-> vec], m.window)

\* full_jac[indices[0], indices[1], i] = plane, line 155: the plane must
\* have the shape of the index range
Scatter(full, indices, plane) ==
    IF \E k \in 1..2 : SliceLen(indices[k]) # plane.n[k] THEN Raised
    ELSE [data |-> Force([p \in DOMAIN full |->
            IF InRange(indices, p)
            THEN plane.data[<<p[1] - indices[1].lo, p[2] - indices[2].lo>>]
            ELSE full[p]])]

\* lines 154-155: the planes of one sub-model written at vstart .. vend-1
RECURSIVE ScatterPlanes(_, _, _, _, _)
ScatterPlanes(full_jac, indices, sub_planes, i, vend) ==
    IF i >= vend THEN [status |-> "ok", full_jac |-> full_jac]
    ELSE IF i + 1 > Len(full_jac) \/ Len(sub_planes) = 0
         THEN [status |-> "IndexError", full_jac |-> full_jac]
    ELSE Bind(Scatter(full_jac[i + 1], indices, Head(sub_planes)), LAMBDA written :
            IF IsRaised(written) THEN [status |-> "RuntimeError", full_jac |-> full_jac]
            ELSE ScatterPlanes([full_jac EXCEPT ![i + 1] = written.data], indices,
                               Tail(sub_planes), i + 1, vend))

\* what the loop of lines 149-157 has done so far: the sub-models as their
\* jacobian() left them, the stack, and the range [vstart, vend) of each
JacState(status, models, full_jac, ranges) ==
    [status |-> status, models |-> models, full_jac |-> full_jac, ranges |-> ranges]

\* lines 149-157
RECURSIVE JacobianEach(_, _, _, _, _, _, _)
JacobianEach(g, tgt, params, todo, vstart, ivstart, st) ==
    IF todo = <<>> THEN st
    ELSE LET m == Head(todo)
             nkeys == Len(parameter_order(m))
             vend == vstart + SliceSum(group_parameter_vector_len(g), ivstart, nkeys)
             indices == GetIndices(m.window, g.window, tgt.pixelscale)
         IN  Bind(sub_jacobian(m, tgt, Slice(params, vstart, vend)), LAMBDA sub :
                IF sub.status # "ok"
                THEN [st EXCEPT !.status = sub.status, !.models = Append(@, sub.model)]
                ELSE Bind(ScatterPlanes(st.full_jac, indices,
                                        sub.planes, vstart, vend), LAMBDA put :
                    IF put.status # "ok"
                    THEN [st EXCEPT !.status = put.status,
                                    !.models = Append(@, sub.model)]
                    ELSE JacobianEach(g, tgt, params, Tail(todo), vend, ivstart + nkeys,
                            JacState("ok", Append(st.models, sub.model), put.full_jac,
                                     Append(st.ranges, <<vstart, vend>>)))))

\* Group_Model.jacobian(parameters), lines 145-158
group_jacobian(g, tgt, params) ==
    IF g.window = NoWindow THEN JacState("AttributeError", <<>>, <<>>, <<>>)
    ELSE JacobianEach(g, tgt, params, g.model_list, 0, 0,
            JacState("ok", <<>>,
                     [i \in 1..Len(params) |-> group_make_model_image(g, tgt).data],
                     <<>>))

-----------------------------------------------------------------------------
(* Specification SpecGroup: a group is built, its sub-models are locked   *)
(* and unlocked, and it is sampled and differentiated.                    *)

LeftWindow == MakeWindow(<<0, 0>>, <<PixelScale, MaxPixels * PixelScale>>)
RightWindow ==
    MakeWindow(<<PixelScale, 0>>,
               <<(MaxPixels - 1) * PixelScale, MaxPixels * PixelScale>>)

\* a sub-model of the group: sampled as evaluated, neither integrated nor
\* convolved
SubModel(name, kind, plocked, center, window) ==
    [BaseModel EXCEPT !.name = name, !.kind = kind, !.plocked = plocked,
                      !.center = center, !.window = window,
                      !.integrate_mode = S_none]

\* the models offered to the group: two of them share a name, one tails off
\* beyond its window, one has no free parameter, one name holds a '|'
Candidates ==
    { SubModel(<<"a">>, "peak", {},
               <<PixelScale - PixelScale \div 6, PixelScale \div 2>>, LeftWindow),
      SubModel(<<"b">>, "peak", {"center"},
               <<PixelScale + PixelScale \div 2, PixelScale \div 2>>, RightWindow),
      SubModel(<<"a">>, "flat", {"center", "amp"},
               <<PixelScale, PixelScale>>, TargetWindow),
      SubModel(<<"a", "|", "b">>, "flat", {},
               <<PixelScale, PixelScale>>, TargetWindow) }

\* those whose construction succeeded
Constructed == { m \in Candidates : NameAccepted(m.name) }

GroupTarget ==
    [window |-> TargetWindow, pixelscale |-> PixelScale, psf |-> NoPSF, psf_upscale |-> 1]

InitGroup ==
    /\ group = NewGroup
    /\ target = GroupTarget
    /\ outcome = Idle
    /\ trace = [steps |-> 0]
    /\ model = Unused
    /\ accum = Unused
    /\ stack = Unused

\* the same model object, whatever its parameters and its lock are now
SameModel(a, b) == a.name = b.name /\ a.kind = b.kind /\ a.window = b.window

\* group.add_model(m) of a model not yet in the list
AddModel(m) ==
    /\ Len(group.model_list) < MaxModels
    /\ \A i \in 1..Len(group.model_list) : ~SameModel(group.model_list[i], m)
    /\ group' = add_model(group, m)
    /\ outcome' = Idle
    /\ UNCHANGED <<model, target, accum, stack, trace>>

\* group.model_list[i].locked = True
Lock(i) ==
    /\ ~group.model_list[i].locked
    /\ group' = SetLocked(group, i, TRUE)
    /\ outcome' = Idle
    /\ UNCHANGED <<model, target, accum, stack, trace>>

\* group.model_list[i].locked = False
Unlock(i) ==
    /\ group.model_list[i].locked
    /\ group' = SetLocked(group, i, FALSE)
    /\ outcome' = Idle
    /\ UNCHANGED <<model, target, accum, stack, trace>>

\* group.sample(): over the group's own image, and, for comparison, into a
\* zero image over the same window
GroupSample ==
    /\ outcome.op # "gsample"
    /\ outcome' = [op |-> "gsample",
                   call |-> group_sample(group, target, NoArg),
                   shared |-> IF group.window = NoWindow
                              THEN GroupResult("AttributeError", Raised)
                              ELSE group_sample(group, target,
                                        group_make_model_image(group, target))]
    /\ UNCHANGED <<model, target, accum, stack, trace, group>>

\* group.jacobian(parameters) with the group's vector, or that vector one
\* step on
GroupJacobian(stepped) ==
    /\ outcome.op # "gjacobian"
    /\ stepped => trace.steps < MaxSteps
    /\ trace' = IF stepped THEN [trace EXCEPT !.steps = @ + 1] ELSE trace
    /\ outcome' = [op |-> "gjacobian", before |-> group,
                   parameters |->
                        IF stepped
                        THEN [i \in 1..Len(group_parameter_vector(group)) |->
                                group_parameter_vector(group)[i] + GroupSteps(group)[i]]
                        ELSE group_parameter_vector(group),
                   call |-> group_jacobian(group, target,
                        IF stepped
                        THEN [i \in 1..Len(group_parameter_vector(group)) |->
                                group_parameter_vector(group)[i] + GroupSteps(group)[i]]
                        ELSE group_parameter_vector(group))]
    /\ group' = [group EXCEPT !.model_list =
                    [i \in 1..Len(@) |->
                        IF i <= Len(outcome'.call.models)
                        THEN outcome'.call.models[i] ELSE @[i]]]
    /\ UNCHANGED <<model, target, accum, stack>>

NextGroup ==
    \/ \E m \in Constructed : AddModel(m)
    \/ \E i \in 1..Len(group.model_list) : Lock(i)
    \/ \E i \in 1..Len(group.model_list) : Unlock(i)
    \/ GroupSample
    \/ \E stepped \in BOOLEAN : GroupJacobian(stepped)

SpecGroup == InitGroup /\ [][NextGroup]_vars

-----------------------------------------------------------------------------
(* Group_Model: what the group shares with its sub-models (specification  *)
(* SpecOwner).  Images are objects: `target` is the store of image         *)
(* objects, a sequence of pixel rows, and a reference to an image is its   *)
(* position in the store, so that two holders of one image see each        *)
(* other's writes.  A sub-model's initialize and sample are kept to what   *)
(* they read and write: initialize reads the image it is given and sets    *)
(* the center, sample() answers the model's own image.                     *)

MaxCells == 3          \* pixels of an image
MaxSubs == 2           \* sub-models of the group

\* a reference to the image object at position i of the store, and None
Ref(i) == [at |-> i]
NoRef == [none |-> TRUE]

\* self._psf_mode = None, line 32
NoMode == [none |-> TRUE]
Mode(value) == [value |-> value]

\* target.copy(), line 89, were the copy the image itself
CopyOfShared(store, ref) == [store |-> store, ref |-> ref]

\* target.copy(), line 89: a new image object with the same pixels
CopyOf(store, ref) ==
    [store |-> Append(store, store[ref.at]), ref |-> Ref(Len(store) + 1)]

\* sync_target(), lines 177-181; model_list[0] of an empty list fails
sync_target(g) ==
    IF g.target = NoRef /\ g.model_list = <<>> THEN Raised
    ELSE Bind(IF g.target = NoRef THEN g.model_list[1].target ELSE g.target,
              LAMBDA shared :
            [g EXCEPT !.target = shared,
                      !.model_list = [i \in 1..Len(@) |-> [@[i] EXCEPT !.target = shared]]])

\* the psf_mode setter, lines 186-190
set_psf_mode(g, value) ==
    [g EXCEPT !.psf_mode = Mode(value),
              !.model_list = [i \in 1..Len(@) |-> [@[i] EXCEPT !.psf_mode = value]]]

\* the pixel a sub-model's initialize settles on: the brightest of the
\* image it is given
Brightest(row) ==
    CHOOSE c \in 1..Len(row) :
        /\ \A d \in 1..Len(row) : row[d] <= row[c]
        /\ \A d \in 1..(c - 1) : row[d] < row[c]

\* model.initialize(target_copy), model_object.py lines 120-153: a center
\* that is set stays
sub_initialize(m, row) ==
    IF m.center # NoArg THEN m ELSE [m EXCEPT !.center = Ref(Brightest(row))]

\* model.sample(): the model's own light, all of it on its center
sub_sample(m) == [c \in 1..MaxCells |-> IF c = m.center.at THEN m.amp ELSE 0]

\* how Group_Model.initialize ended: the store and the models it left and,
\* per sub-model, the pixels its initialize was given
GroupInitialized(status, store, models, given) ==
    [status |-> status, store |-> store, models |-> models, given |-> given]

\* the loop of lines 90-92 from sub-model i on
RECURSIVE InitializeEach(_, _, _, _, _)
InitializeEach(store, models, target_copy, i, given) ==
    IF i > Len(models) THEN GroupInitialized("ok", store, models, given)
    ELSE Bind(sub_initialize(models[i], store[target_copy.at]), LAMBDA m :
         Bind([models EXCEPT ![i] = m], LAMBDA now :
            IF PsfWindowRequested(m)
            THEN GroupInitialized("NotImplementedError", store, now,
                                  Append(given, store[target_copy.at]))
            ELSE InitializeEach(
                    [store EXCEPT ![target_copy.at] =
                        [c \in 1..MaxCells |-> @[c] - sub_sample(m)[c]]],
                    now, target_copy, i + 1, Append(given, store[target_copy.at]))))

\* Group_Model.initialize(target), lines 83-92.  The copy is the call's
\* own: when the call ends nothing refers to it
group_initialize(g, store, targetArg) ==
    Bind(sync_target(g), LAMBDA synced :
        IF IsRaised(synced) THEN [group |-> g, call |-> GroupInitialized("IndexError", store, g.model_list, <<>>)]
        ELSE Bind(CopyOf(store, IF targetArg = NoArg THEN synced.target ELSE targetArg),
                  LAMBDA made :
             Bind(InitializeEach(made.store, synced.model_list, made.ref, 1, <<>>),
                  LAMBDA done :
                [group |-> [synced EXCEPT !.model_list = done.models],
                 call |-> [done EXCEPT !.store = SubSeq(@, 1, Len(store))]])))

\* the sub-models a caller may hand to the group
SubChoices ==
    { [name |-> <<"s">>, locked |-> FALSE, window |-> w, target |-> t,
       psf_mode |-> pm, center |-> c, amp |-> 1] :
        w \in {LeftWindow}, t \in {Ref(1), Ref(2)}, pm \in {S_none, S_full, S_window},
        c \in {NoArg, Ref(1)} }

\* Group_Model(name, target = t): an empty model_list, lines 28-33
InitOwner ==
    /\ target = << [c \in 1..MaxCells |-> c], [c \in 1..MaxCells |-> MaxCells - c] >>
    /\ \E t \in {NoRef, Ref(2)} :
          group = update_window([model_list |-> <<>>, window |-> NoWindow,
                                 target |-> t, psf_mode |-> NoMode])
    /\ outcome = Idle
    /\ model = Unused
    /\ accum = Unused
    /\ stack = Unused
    /\ trace = Unused

\* group.add_model(m)
OwnerAddModel(m) ==
    /\ Len(group.model_list) < MaxSubs
    /\ group' = add_model(group, m)
    /\ outcome' = [op |-> "add_model"]
    /\ UNCHANGED <<model, target, accum, stack, trace>>

\* group.psf_mode = value
OwnerSetPsfMode(value) ==
    /\ group' = set_psf_mode(group, value)
    /\ outcome' = [op |-> "psf_mode"]
    /\ UNCHANGED <<model, target, accum, stack, trace>>

\* group.initialize(targetArg)
OwnerInitialize(targetArg) ==
    /\ outcome.op # "initialize"
    /\ LET done == group_initialize(group, target, targetArg)
       IN  /\ group' = done.group
           /\ target' = done.call.store
           /\ outcome' = [op |-> "initialize", before |-> group, store0 |-> target,
                          targetArg |-> targetArg, call |-> done.call]
    /\ UNCHANGED <<model, accum, stack, trace>>

NextOwner ==
    \/ \E m \in SubChoices : OwnerAddModel(m)
    \/ \E value \in {S_none, S_full, S_window} : OwnerSetPsfMode(value)
    \/ \E targetArg \in {NoArg, Ref(1)} : OwnerInitialize(targetArg)

SpecOwner == InitOwner /\ [][NextOwner]_vars

-----------------------------------------------------------------------------
(* Target_Image (target_image.py) as an object of its own: the data and    *)
(* the auxiliary planes _variance, _mask and _psf.  A plane is its shape n *)
(* and one value per pixel; a mask holds 0 (False) and 1 (True).           *)

\* None: the plane is not set
NoPlane == [none |-> TRUE]

Zeros(n) == [n |-> n, data |-> [p \in Pix(n) |-> 0]]

\* an array whose pixels all differ, zero at the first pixel only
Ramp(n) == [n |-> n, data |-> [p \in Pix(n) |-> p[1] + MaxSide * p[2]]]

\* lines 52-57 and 69-74: the attribute is there and is not None
has_variance(img) == img.variance \notin {NoPlane, Missing}
has_mask(img) == img.mask \notin {NoPlane, Missing}

\* the variance getter were it to keep the default it answers
variance_storing(img) ==
    LET value == IF has_variance(img) THEN img.variance
                 ELSE [n |-> img.data.n, data |-> [p \in Pix(img.data.n) |-> 1]]
    IN  [value |-> value, self |-> [img EXCEPT !.variance = value]]

\* the property getters, lines 42-46 and 59-63: the value read and the
\* object after the read
variance(img) ==
    [value |-> IF has_variance(img) THEN img.variance
               ELSE [n |-> img.data.n, data |-> [p \in Pix(img.data.n) |-> 1]],
     self |-> img]

mask(img) ==
    [value |-> IF has_mask(img) THEN img.mask ELSE Zeros(img.data.n),
     self |-> img]

\* lines 76-80
psf(img) ==
    IF has_psf(img) THEN [status |-> "ok", value |-> img.psf, self |-> img]
    ELSE [status |-> "AttributeError", value |-> NoPlane, self |-> img]

\* how a call on an image ended and the image it left or returned
Done(status, image) == [status |-> status, image |-> image]

\* set_variance were the shape of the array not looked at
set_variance_unchecked(img, v) == Done("ok", [img EXCEPT !.variance = v])

\* lines 115-128
set_variance(img, v) ==
    IF v = NoPlane THEN Done("ok", [img EXCEPT !.variance = NoPlane])
    ELSE IF v.n # img.data.n THEN Done("AssertionError", img)
    ELSE Done("ok", [img EXCEPT !.variance = v])

\* set_psf were the shape of the kernel not looked at
set_psf_unchecked(img, kernel) == Done("ok", [img EXCEPT !.psf = kernel])

\* lines 130-141
set_psf(img, kernel) ==
    IF kernel = NoPlane THEN Done("ok", [img EXCEPT !.psf = NoPlane])
    ELSE IF ~(\A k \in 1..2 : kernel.n[k] % 2 = 1) THEN Done("AssertionError", img)
    ELSE Done("ok", [img EXCEPT !.psf = kernel])

\* lines 143-152: the array is stored as booleans
set_mask(img, m) ==
    IF m = NoPlane THEN Done("ok", [img EXCEPT !.mask = NoPlane])
    ELSE IF m.n # img.data.n THEN Done("AssertionError", img)
    ELSE Done("ok", [img EXCEPT !.mask =
            [m EXCEPT !.data = [p \in DOMAIN @ |-> IF @[p] = 0 THEN 0 ELSE 1]]])

\* the object BaseImage.__init__ leaves: data, and no auxiliary attribute
Skeleton(data) ==
    [data |-> data, variance |-> Missing, mask |-> Missing, psf |-> Missing,
     psf_upscale |-> 1]

Kwargs(v, m, kernel, upscale) ==
    [variance |-> v, mask |-> m, psf |-> kernel, psf_upscale |-> upscale]

\* Target_Image.__init__, lines 26-36, on the object base: a plane that is
\* not there yet is set from the keyword arguments
Target_Image_init(base, kw) ==
    LET v == IF has_variance(base) THEN Done("ok", base)
             ELSE set_variance(base, kw.variance)
        m == IF v.status # "ok" \/ has_mask(v.image) THEN v
             ELSE set_mask(v.image, kw.mask)
        k == IF m.status # "ok" \/ has_psf(m.image) THEN m
             ELSE set_psf(m.image, kw.psf)
    IN  IF k.status # "ok" THEN Done(k.status, NoPlane)
        ELSE Done("ok", [k.image EXCEPT !.psf_upscale = kw.psf_upscale])

\* lines 175-187
copy(img) ==
    Target_Image_init(Skeleton(img.data),
        Kwargs(img.variance, img.mask, img.psf, img.psf_upscale))

\* lines 189-196: the keyword arguments name mask, psf and psf_upscale
blank_copy(img) ==
    Target_Image_init(Skeleton(Zeros(img.data.n)),
        Kwargs(NoPlane, img.mask, img.psf, img.psf_upscale))

\* plane[indices]
Cut(plane, indices) ==
    LET n == <<SliceLen(indices[1]), SliceLen(indices[2])>>
    IN  [n |-> n,
         data |-> [p \in Pix(n) |->
                    plane.data[<<p[1] + indices[1].lo, p[2] + indices[2].lo>>]]]

\* lines 198-208
get_window(img, indices) ==
    Target_Image_init(Skeleton(Cut(img.data, indices)),
        Kwargs(IF has_variance(img) THEN Cut(img.variance, indices) ELSE NoPlane,
               IF has_mask(img) THEN Cut(img.mask, indices) ELSE NoPlane,
               img.psf, img.psf_upscale))

\* plane[: MS * scale, : NS * scale].reshape(MS, scale, NS, scale) folded
\* over axes 1 and 3 by sum or by amax
Binned(plane, scale, how) ==
    LET n == <<plane.n[1] \div scale, plane.n[2] \div scale>>
        Block(p) == ((p[1] * scale)..(p[1] * scale + scale - 1))
                        \X ((p[2] * scale)..(p[2] * scale + scale - 1))
    IN  [n |-> n,
         data |-> [p \in Pix(n) |->
            IF how = "sum" THEN SumOver(plane.data, Block(p))
            ELSE IF \E q \in Block(p) : plane.data[q] = 1 THEN 1 ELSE 0]]

\* lines 235-261
reduce(img, scale) ==
    Target_Image_init(Skeleton(Binned(img.data, scale, "sum")),
        Kwargs(IF has_variance(img)
                  THEN Binned(variance(img).value, scale, "sum") ELSE NoPlane,
               IF has_mask(img)
                  THEN Binned(mask(img).value, scale, "amax") ELSE NoPlane,
               IF has_psf(img)
                  THEN Binned(psf(img).value, scale, "sum") ELSE NoPlane,
               img.psf_upscale))

\* lines 266-289: the data extension, then one tagged extension per plane
\* that is set
save_image_list(img) ==
    <<[IMAGE |-> "DATA", data |-> img.data]>>
    \o (IF img.psf # NoPlane
        THEN <<[IMAGE |-> "PSF", data |-> img.psf, UPSCALE |-> img.psf_upscale]>>
        ELSE <<>>)
    \o (IF img.variance # NoPlane
        THEN <<[IMAGE |-> "VARIANCE", data |-> img.variance]>> ELSE <<>>)
    \o (IF img.mask # NoPlane
        THEN <<[IMAGE |-> "MASK", data |-> img.mask]>> ELSE <<>>)

\* the loop of lines 294-303 over the extensions from the i-th on
RECURSIVE LoadEach(_, _, _)
LoadEach(img, hdul, i) ==
    IF i > Len(hdul) THEN Done("ok", img)
    ELSE LET hdu == hdul[i]
             set == CASE hdu.IMAGE = "PSF" ->
                            LET k == set_psf(img, hdu.data)
                            IN  IF k.status # "ok" THEN k
                                ELSE Done("ok", [k.image EXCEPT
                                                    !.psf_upscale = hdu.UPSCALE])
                      [] hdu.IMAGE = "VARIANCE" -> set_variance(img, hdu.data)
                      [] hdu.IMAGE = "MASK" -> set_mask(img, hdu.data)
                      [] OTHER -> Done("ok", img)
         IN  IF set.status # "ok" THEN set ELSE LoadEach(set.image, hdul, i + 1)

\* lines 291-304: self.load(filename).  BaseImage.load gives self the data
\* of the file; the planes self holds are written only by an extension of
\* their tag
load(self, hdul) == LoadEach([self EXCEPT !.data = hdul[1].data], hdul, 2)

\* Target_Image(filename = ...): BaseImage.__init__ loads the file into the
\* new object before lines 28-36 run
LoadNew(hdul) ==
    LET loaded == load(Skeleton(NoPlane), hdul)
    IN  IF loaded.status # "ok" THEN loaded
        ELSE Target_Image_init(loaded.image, Kwargs(NoPlane, NoPlane, NoPlane, 1))

-----------------------------------------------------------------------------
(* Specification SpecTarget: one Target_Image, its planes set by the       *)
(* caller, and the images obtained from it.                                *)

Sides == 1..MaxSide

\* the arrays a caller hands to set_variance, set_mask and set_psf of an
\* image: None, arrays of the image's shape, and arrays of other shapes
Arrays(img) ==
    {NoPlane}
    \cup { Zeros(n) : n \in {img.data.n, <<1, 1>>} }
    \cup { Ramp(n) : n \in {img.data.n, <<MaxSide, MaxSide>>, <<2, MaxSide>>} }

\* index ranges of a window inside the image: all of an axis, or all but
\* its first or its last pixel
IndexChoices(img) ==
    { <<ix, iy>> :
        ix \in { r \in { [lo |-> 0, hi |-> img.data.n[1]],
                         [lo |-> 1, hi |-> img.data.n[1]] } : r.lo < r.hi },
        iy \in { r \in { [lo |-> 0, hi |-> img.data.n[2]],
                         [lo |-> 0, hi |-> img.data.n[2] - 1] } : r.lo < r.hi } }

\* an image that already holds every plane, to load a file into
Holder ==
    [data |-> Ramp(<<MaxSide, MaxSide>>), variance |-> Ramp(<<MaxSide, MaxSide>>),
     mask |-> Zeros(<<MaxSide, MaxSide>>), psf |-> Ramp(<<1, 1>>), psf_upscale |-> 1]

InitTarget ==
    /\ \E n \in {<<MaxSide, MaxSide>>, <<2, MaxSide>>}, u \in {2} :
          target = Target_Image_init(Skeleton(Ramp(n)),
                                     Kwargs(NoPlane, NoPlane, NoPlane, u)).image
    /\ outcome = Idle
    /\ model = Unused
    /\ accum = Unused
    /\ stack = Unused
    /\ trace = Unused
    /\ group = Unused

\* what a call on the image did: the image before, the argument, how the
\* call ended and the image it returned or left
Called(op, arg, done) ==
    [op |-> op, before |-> target, arg |-> arg, status |-> done.status,
     result |-> done.image]

\* image.set_variance(v)
SetVariance(v) ==
    /\ outcome' = Called("set_variance", v, set_variance(target, v))
    /\ target' = outcome'.result
    /\ UNCHANGED <<model, accum, stack, trace, group>>

\* image.set_mask(m)
SetMask(m) ==
    /\ outcome' = Called("set_mask", m, set_mask(target, m))
    /\ target' = outcome'.result
    /\ UNCHANGED <<model, accum, stack, trace, group>>

\* image.set_psf(kernel)
SetPsf(kernel) ==
    /\ outcome' = Called("set_psf", kernel, set_psf(target, kernel))
    /\ target' = outcome'.result
    /\ UNCHANGED <<model, accum, stack, trace, group>>

\* image.variance, image.mask and image.psf are read
ReadPlanes ==
    /\ LET v == variance(target)
           m == mask(v.self)
           k == psf(m.self)
       IN  outcome' = Called("read", [variance |-> v.value, mask |-> m.value],
                             Done("ok", k.self))
    /\ target' = outcome'.result
    /\ UNCHANGED <<model, accum, stack, trace, group>>

\* an image obtained from this one; the caller goes on with it when the
\* call returns one
Obtain(op, arg, done) ==
    /\ outcome' = Called(op, arg, done)
    /\ target' = IF done.status = "ok" THEN done.image ELSE target
    /\ UNCHANGED <<model, accum, stack, trace, group>>

Copy == Obtain("copy", NoPlane, copy(target))

BlankCopy == Obtain("blank_copy", NoPlane, blank_copy(target))

GetWindow(indices) == Obtain("get_window", indices, get_window(target, indices))

Reduce(scale) == Obtain("reduce", scale, reduce(target, scale))

\* the image is saved and the file loaded, into a new Target_Image or into
\* one that exists; the image saved stays as it is
SaveLoad(into) ==
    /\ outcome' = Called("load", into,
                         IF into = NoPlane THEN LoadNew(save_image_list(target))
                         ELSE load(into, save_image_list(target)))
    /\ UNCHANGED <<target, model, accum, stack, trace, group>>

NextTarget ==
    \/ \E v \in Arrays(target) : SetVariance(v)
    \/ \E m \in Arrays(target) : SetMask(m)
    \/ \E kernel \in Arrays(target) : SetPsf(kernel)
    \/ ReadPlanes
    \/ Copy
    \/ BlankCopy
    \/ \E indices \in IndexChoices(target) : GetWindow(indices)
    \/ \E scale \in Sides : Reduce(scale)
    \/ \E into \in {NoPlane, Holder} : SaveLoad(into)

SpecTarget == InitTarget /\ [][NextTarget]_vars

-----------------------------------------------------------------------------
(* center_of_mass (utils/initialize/center.py) and                         *)
(* Component_Model.initialize.  An index along an axis of the target area  *)
(* is a float in the code; here it is a whole number of 1/CenterUnit       *)
(* pixel.  Index pairs are <<axis 0, axis 1>> of the array.                *)

CenterUnit == 1000

\* line 7 for an image less than 70 pixels wide, and line 9
com_window == 6

\* line 11
com_iterations == 100

\* a center that is nan or inf, and the exception int(round()) raises on it
NotFinite(error) == [bad |-> error]

Finite(at) == [at |-> at]

IsFinite(c) == "at" \in DOMAIN c

\* lines 13-16: per axis the index range [lo, hi) of the search box
SearchBox(at) ==
    [k \in 1..2 |->
        [lo |-> RoundDiv(2 * at[k] - com_window * CenterUnit, 2 * CenterUnit),
         hi |-> RoundDiv(2 * at[k] + com_window * CenterUnit, 2 * CenterUnit)]]

\* line 18
ImageEdge(box, image) ==
    \E k \in 1..2 : box[k].lo < 0 \/ box[k].hi >= image.n[k]

\* num / denom as a float: nan for 0 / 0, inf for x / 0 (numpy warns and
\* goes on)
Quotient(num, denom) ==
    IF denom = 0 THEN (IF num = 0 THEN NotFinite("ValueError")
                       ELSE NotFinite("OverflowError"))
    ELSE IF denom > 0 THEN Finite((CenterUnit * num) \div denom)
    ELSE Finite((-(CenterUnit * num)) \div (-denom))

\* lines 23-28: the center of mass of the box, axis k weighted by the
\* offset into the box along axis k
NewCenter(box, image) ==
    LET cells == (box[1].lo..(box[1].hi - 1)) \X (box[2].lo..(box[2].hi - 1))
        denom == SumOver(image.data, cells)
        along == [k \in 1..2 |->
                    Quotient(SumOver([q \in cells |->
                                        image.data[q] * (q[k] - box[k].lo)], cells),
                             denom)]
    IN  IF IsFinite(along[1]) /\ IsFinite(along[2])
        THEN Finite(<<box[1].lo * CenterUnit + along[1].at,
                      box[2].lo * CenterUnit + along[2].at>>)
        ELSE IF ~IsFinite(along[1]) THEN along[1] ELSE along[2]

\* the distance of line 30, in units: np.sum(np.abs(center - new_center))
Distance(center, new_center) ==
    Abs(center.at[1] - new_center.at[1]) + Abs(center.at[2] - new_center.at[2])

\* how center_of_mass ended, the center it returned, whether it met a
\* zero denominator, the way it left the loop ("edge": line 20,
\* "converged": line 31, "exhausted": the range of line 11 ran out) and the
\* distance of the last update it computed
Ended(status, center, degenerate, how, moved) ==
    [status |-> status, center |-> center, degenerate |-> degenerate,
     how |-> how, moved |-> moved]

\* the loop of lines 11-33 from the given iteration on; line 14 raises on
\* a center that is not finite
RECURSIVE Search(_, _, _, _, _, _)
Search(center, init_center, image, iteration, degenerate, moved) ==
    IF iteration >= com_iterations
    THEN Ended("ok", center, degenerate, "exhausted", moved)
    ELSE IF ~IsFinite(center) THEN Ended(center.bad, center, degenerate, "raised", moved)
    ELSE LET box == SearchBox(center.at)
             new_center == NewCenter(box, image)
         IN  IF ImageEdge(box, image)
             THEN Ended("ok", init_center, degenerate, "edge", moved)
             ELSE IF ~IsFinite(new_center)
             THEN Search(new_center, init_center, image, iteration + 1, TRUE, moved)
             ELSE IF 10 * Distance(center, new_center) < CenterUnit
             THEN Ended("ok", center, degenerate, "converged",
                        Distance(center, new_center))
             ELSE Search(new_center, init_center, image, iteration + 1, degenerate,
                         Distance(center, new_center))

\* center_of_mass(center, image), lines 5-35
center_of_mass(center, image) == Search(center, center, image, 0, FALSE, 0)

\* the target area has its origin at 0 and pixels of CenterUnit
WindowCenterOf(area) ==
    <<(area.n[2] * CenterUnit) \div 2, (area.n[1] * CenterUnit) \div 2>>

\* coord_to_index(x, y, image): the array index of a coordinate
coord_to_index(c) == <<c[2] - CenterUnit \div 2, c[1] - CenterUnit \div 2>>

\* index_to_coord(i, j, image)
index_to_coord(at) == <<at[2] + CenterUnit \div 2, at[1] + CenterUnit \div 2>>

\* how initialize() ended, the model it left and what center_of_mass did
Initialized(status, m, com) == [status |-> status, model |-> m, com |-> com]

\* Component_Model.initialize, model_object.py lines 120-153, on the
\* target area target[self.window]
initialize(m, area) ==
    IF m.center # NoArg THEN Initialized("ok", m, NoArg)
    ELSE Bind([m EXCEPT !.center = WindowCenterOf(area)], LAMBDA centered :
        IF m.locked THEN Initialized("ok", centered, NoArg)
        ELSE Bind(center_of_mass(Finite(coord_to_index(centered.center)), area),
                  LAMBDA COM :
            IF COM.status # "ok" THEN Initialized(COM.status, centered, COM)
            ELSE IF ~IsFinite(COM.center)
                 THEN Initialized("ok", [centered EXCEPT !.center = COM.center], COM)
            ELSE IF \E k \in 1..2 : \/ COM.center.at[k] < 0
                                    \/ COM.center.at[k] >= area.n[k] * CenterUnit
                 THEN Initialized("ok", centered, COM)
            ELSE Initialized("ok",
                    [centered EXCEPT !.center = index_to_coord(COM.center.at)], COM)))

-----------------------------------------------------------------------------
(* Specification SpecCenter: a target area with a few pixels that are not  *)
(* zero, and a model whose center is initialized on it.                    *)

MaxArea == 8           \* largest edge of the target area, in pixels
MaxLit == 3            \* pixels of the target area that are not zero

\* the pixels the caller's image may be bright or negative at
Cells(area) ==
    { p \in Pix(area.n) : \A k \in 1..2 : p[k] \in {1, 4, area.n[k] - 2} }

InitCenter ==
    /\ \E n \in {MaxArea - 1, MaxArea} : target = Zeros(<<n, n>>)
    /\ \E c \in {NoArg, <<CenterUnit, CenterUnit>>}, l \in BOOLEAN :
          model = [center |-> c, locked |-> l]
    /\ trace = [lit |-> 0]
    /\ outcome = Idle
    /\ accum = Unused
    /\ stack = Unused
    /\ group = Unused

\* the image the model is initialized on gets one more pixel
PutPixel(p, v) ==
    /\ outcome.op = "none"
    /\ trace.lit < MaxLit
    /\ target.data[p] = 0
    /\ target' = [target EXCEPT !.data[p] = v]
    /\ trace' = [lit |-> trace.lit + 1]
    /\ UNCHANGED <<model, outcome, accum, stack, group>>

\* model.initialize(target)
Initialize ==
    /\ outcome' = [op |-> "initialize", before |-> model,
                   call |-> initialize(model, target)]
    /\ model' = outcome'.call.model
    /\ UNCHANGED <<target, trace, accum, stack, group>>

NextCenter ==
    \/ \E p \in Cells(target), v \in {-1, 1} : PutPixel(p, v)
    \/ Initialize

SpecCenter == InitCenter /\ [][NextCenter]_vars

-----------------------------------------------------------------------------
(* Iter.fit (fit/iterative.py), one sub_step at a time, with a            *)
(* KeyboardInterrupt that may arrive anywhere inside the try block         *)
(* (specification SpecIter).  The loss a step records is one of two        *)
(* levels: two equal losses in a row are a relative change of zero, which  *)
(* the test of line 76 counts as converging, a change of level is not.     *)

MaxIter == 5           \* largest max_iter tried

LossLevels == {1, 2}

\* line 76: the last two losses differ by less than the tolerance
Flat(loss_history) ==
    /\ Len(loss_history) >= 2
    /\ loss_history[Len(loss_history)] = loss_history[Len(loss_history) - 1]

\* sub_step(model), lines 40-41: the sub-model is pointed at what the
\* other models leave of the target
InstallResidual(g, i) == [g EXCEPT !.model_list[i].target = "residual"]

\* sub_step(model), lines 42-46: the inner fit has returned and the
\* sub-model is pointed at the group's target again
RestoreTarget(g, i) == [g EXCEPT !.model_list[i].target = g.target]

\* Iter.step, lines 57-81, recording the given loss
step(o, loss) ==
    LET history == Append(o.loss_history, loss)
    IN  [o EXCEPT !.loss_history = history,
                  !.count_finish = IF o.iteration >= 2 /\ Flat(history)
                                   THEN @ + 1 ELSE 0,
                  !.passed = Append(@, o.iteration >= 2 /\ Flat(history)),
                  !.iteration = @ + 1,
                  !.steps = @ + 1,
                  !.sub = 0]

\* lines 93-98: what the loop does after a step
AfterStep(o) ==
    IF o.iteration > 2 /\ o.count_finish >= 2
    THEN [o EXCEPT !.pc = "leave", !.message = Append(@, "success")]
    ELSE IF o.iteration > o.max_iter
         THEN [o EXCEPT !.pc = "leave",
                        !.message = Append(@, "fail max iterations reached")]
    ELSE o

\* Iter(model, method, max_iter = m) on a group of n sub-models
InitIter ==
    /\ \E m \in 0..MaxIter :
          trace = [pc |-> "idle", max_iter |-> m, iteration |-> 0,
                   count_finish |-> 0, steps |-> 0, loss_history |-> <<>>,
                   passed |-> <<>>, sub |-> 0, message |-> <<>>]
    /\ \E n \in 1..MaxSubs :
          group = [target |-> "target",
                   model_list |-> [i \in 1..n |-> [target |-> "target"]]]
    /\ model = Unused
    /\ target = Unused
    /\ accum = Unused
    /\ outcome = Unused
    /\ stack = Unused

\* fit() is called: line 85
IterFit ==
    /\ trace.pc = "idle"
    /\ trace' = [trace EXCEPT !.pc = "loop", !.iteration = 0]
    /\ UNCHANGED <<model, target, accum, outcome, stack, group>>

\* step() reaches the next sub-model: sub_step, lines 40-41
IterSubStep ==
    /\ trace.pc = "loop"
    /\ trace.sub < Len(group.model_list)
    /\ trace' = [trace EXCEPT !.pc = "sub", !.sub = @ + 1]
    /\ group' = InstallResidual(group, trace.sub + 1)
    /\ UNCHANGED <<model, target, accum, outcome, stack>>

\* the inner fit of the sub-model returns: sub_step, lines 42-46
IterSubReturn ==
    /\ trace.pc = "sub"
    /\ trace' = [trace EXCEPT !.pc = "loop"]
    /\ group' = RestoreTarget(group, trace.sub)
    /\ UNCHANGED <<model, target, accum, outcome, stack>>

\* every sub-model has been fitted: the rest of step(), lines 57-81, and
\* the tests of the loop, lines 93-98
IterLoop(loss) ==
    /\ trace.pc = "loop"
    /\ trace.sub = Len(group.model_list)
    /\ trace' = AfterStep(step(trace, loss))
    /\ UNCHANGED <<model, target, accum, outcome, stack, group>>

\* the break of line 95 or 98 leaves the try block, and fit() returns
IterLeave ==
    /\ trace.pc = "leave"
    /\ trace' = [trace EXCEPT !.pc = "done"]
    /\ UNCHANGED <<model, target, accum, outcome, stack, group>>

\* a KeyboardInterrupt arrives while fit() is inside its try block, lines
\* 89-98 and all they call: the handler of lines 100-101 runs and fit()
\* returns
IterInterrupt ==
    /\ trace.pc \in {"loop", "sub", "leave"}
    /\ trace' = [trace EXCEPT !.pc = "done",
                              !.message = Append(@, "fail interrupted")]
    /\ UNCHANGED <<model, target, accum, outcome, stack, group>>

NextIter ==
    \/ IterFit
    \/ IterSubStep
    \/ IterSubReturn
    \/ \E loss \in LossLevels : IterLoop(loss)
    \/ IterLeave
    \/ IterInterrupt

SpecIter == InitIter /\ [][NextIter]_vars

-----------------------------------------------------------------------------
(* MHMCMC (fit/mhmcmc.py), one pass of the loop of fit() per step          *)
(* (specification SpecMCMC).  The parameter state is one integer (the      *)
(* model has one parameter), a proposal moves it by one either way, and    *)
(* `model` holds the parameter value the model object has at the moment.   *)
(* Logarithms are kept doubled, so that log_alpha = (chi2 - proposal) / 2  *)
(* stays an integer.                                                       *)

MaxSamples == 3        \* most steps one sampler takes, over all its fits
MaxFits == 3           \* calls of fit() on one sampler
MaxDraw == 4           \* the random draws run down to 2 log(u) = -MaxDraw

\* 2 log(u) for u = torch.rand(): below zero, and -inf for u = 0
MinusInf == [inf |-> TRUE]
LogDraws == {MinusInf} \cup { [at |-> -k] : k \in 1..MaxDraw }

\* log(u) < log_alpha, both doubled
LogLess(logu, log_alpha) == logu = MinusInf \/ logu.at < log_alpha

\* the chi-square of a state: the target is one pixel of value 0 and the
\* model's value is its parameter
Chi2(state) == state * state

\* get_parameter_vector(as_representation = False): the value a
\* representation stands for
Physical(state) == 10 * state

\* sample(state), lines 98-115: evaluating the model at a state writes the
\* state into the model
MHMCMC_sample(state) == [model |-> [parameters |-> state], loss |-> Chi2(state)]

\* accept were it to take no proposal that is worse
accept_downhill(logu, log_alpha) == log_alpha >= 0

\* accept(log_alpha), lines 91-96
accept(logu, log_alpha) == LogLess(logu, log_alpha)

\* step(state, chi2), lines 117-129, for the proposal state + delta and the
\* draw logu: the pair it returns, the model as sample() left it and what
\* it did
MHMCMC_step(state, chi2, delta, logu) ==
    LET proposal_state == state + delta
        proposed == MHMCMC_sample(proposal_state)
        log_alpha == chi2 - proposed.loss
        accepted == accept(logu, log_alpha)
    IN  [state |-> IF accepted THEN proposal_state ELSE state,
         chi2 |-> IF accepted THEN proposed.loss ELSE chi2,
         model |-> proposed.model,
         did |-> [state |-> state, chi2 |-> chi2, proposal_state |-> proposal_state,
                  proposal_chi2 |-> proposed.loss, logu |-> logu,
                  accept |-> accepted]]

\* append_chain were it to record the model as it finds it
append_chain_unset(o, m, state) ==
    [sampler |-> [o EXCEPT !.chain = Append(@, Physical(m.parameters))],
     model |-> m]

\* append_chain(state), lines 82-89: the state is written into the model
\* and read back as physical values
append_chain(o, m, state) ==
    [sampler |-> [o EXCEPT !.chain = Append(@, Physical(state))],
     model |-> [parameters |-> state]]

\* MHMCMC(model, max_iter = m), lines 29-52
InitMCMC ==
    /\ \E m \in 1..MaxSamples :
          trace = [pc |-> "idle", max_iter |-> m, chain |-> <<>>,
                   current_state |-> 0, sampled |-> 0, fits |-> 0,
                   status |-> "ok", call |-> NoArg, last |-> NoArg]
    /\ model = [parameters |-> 0]
    /\ target = Unused
    /\ accum = Unused
    /\ outcome = Unused
    /\ stack = Unused
    /\ group = Unused

\* fit(state, nsamples = n, restart_chain = restart) up to its loop, lines
\* 64-74; n and state are None or the value given
FitBegin(n, restart, stateArg) ==
    /\ trace.pc = "idle"
    /\ trace.fits < MaxFits
    /\ trace.sampled + (IF n = NoArg THEN trace.max_iter ELSE n.given) <= MaxSamples
    /\ LET nsamples == IF n = NoArg THEN trace.max_iter ELSE n.given
           state == IF stateArg = NoArg THEN trace.current_state ELSE stateArg.given
           first == MHMCMC_sample(state)
       IN  /\ trace' = [trace EXCEPT
                    !.pc = "sampling",
                    !.chain = IF restart THEN <<>> ELSE @,
                    !.last = NoArg,
                    !.call = [nsamples |-> nsamples, restart_chain |-> restart,
                              previous |-> Len(trace.chain), left |-> nsamples,
                              state |-> state, chi2 |-> first.loss, steps |-> 0,
                              given |-> stateArg]]
           /\ model' = first.model
    /\ UNCHANGED <<target, accum, outcome, stack, group>>

\* one pass of the loop of lines 75-77: step() and append_chain()
FitStep(delta, logu) ==
    /\ trace.pc = "sampling"
    /\ trace.call.left > 0
    /\ LET stepped == MHMCMC_step(trace.call.state, trace.call.chi2, delta, logu)
           counted == [trace EXCEPT
                          !.sampled = @ + 1,
                          !.last = stepped.did,
                          !.call = [@ EXCEPT !.state = stepped.state,
                                             !.chi2 = stepped.chi2,
                                             !.left = @ - 1, !.steps = @ + 1]]
           appended == append_chain(counted, stepped.model, stepped.state)
       IN  /\ trace' = appended.sampler
           /\ model' = appended.model
    /\ UNCHANGED <<target, accum, outcome, stack, group>>

\* lines 78-80: the loop is over; np.stack raises ValueError on a list
\* without entries
FitEnd ==
    /\ trace.pc = "sampling"
    /\ trace.call.left = 0
    /\ trace' = [trace EXCEPT
            !.pc = "idle",
            !.fits = @ + 1,
            !.current_state = trace.call.state,
            !.status = IF trace.chain = <<>> THEN "ValueError" ELSE "ok"]
    /\ UNCHANGED <<model, target, accum, outcome, stack, group>>

NextMCMC ==
    \/ \E n \in {NoArg} \cup { [given |-> k] : k \in 0..MaxSamples },
          restart \in BOOLEAN, stateArg \in {NoArg, [given |-> MaxSamples]} :
            FitBegin(n, restart, stateArg)
    \/ \E delta \in {-1, 1}, logu \in LogDraws : FitStep(delta, logu)
    \/ FitEnd

SpecMCMC == InitMCMC /\ [][NextMCMC]_vars

-----------------------------------------------------------------------------
(* Properties of Component_Model.sample (specification Spec) *)

Sampled == outcome.op = "sample"

\* the pixel values of the caller's accumulator are those from before
AccumulatorKept ==
    /\ accum = outcome.before
    /\ outcome.before # NoArg => outcome.call.image.data = outcome.before.data

\* C1: sample() with 'window' in psf_mode ends in NotImplementedError, so no
\* image of another mode is returned, and a caller's accumulator holds the
\* pixel values it held before the call
C1_WindowModeFails ==
    (Sampled /\ Contains(S_window, outcome.model0.psf_mode)) =>
        /\ outcome.call.status = "NotImplementedError"
        /\ AccumulatorKept

C1_Witness ==
    /\ Sampled
    /\ outcome.model0.psf_mode = S_window
    /\ outcome.before # NoArg
    /\ outcome.call.status = "NotImplementedError"

\* C2: sample() with psf_mode 'full' on a target without a PSF ends in a
\* failure, never in an unconvolved sample, and leaves a caller's
\* accumulator as it was
C2_FullWithoutPsfFails ==
    (Sampled /\ outcome.model0.psf_mode = S_full /\ target.psf = NoPSF) =>
        /\ outcome.call.status \in {"AttributeError"}
        /\ AccumulatorKept

C2_Witness ==
    /\ Sampled
    /\ outcome.model0.psf_mode = S_full
    /\ target.psf = NoPSF
    /\ outcome.before # NoArg
    /\ outcome.call.status # "ok"

\* a completed call in 'full' mode on a target with a PSF
FullSampled ==
    /\ Sampled
    /\ PsfFullRequested(outcome.model0)
    /\ ~PsfWindowRequested(outcome.model0)
    /\ has_psf(target)

\* the window the call was asked to work on, lines 187-190
Requested ==
    WorkingWindow(SampleImage(outcome.model0, target, outcome.before),
                  outcome.sample_window)

\* the image line 243 adds to sample_image, from the working image the
\* call integrated; the convolution changes its values only
Added ==
    Contribution(target, outcome.call.integrated,
                 CenterShift(outcome.model0, target,
                             PixelScale \div target.psf_upscale))

\* C23: in 'full' PSF mode the contribution added to the accumulator covers
\* exactly the requested working window: padding by psf_border_int pixels,
\* sampling at psf_upscale times the resolution, shifting by the sub-pixel
\* offset and back, reducing by psf_upscale and cropping psf_border_int
\* pixels restores the window's origin, extent and pixel count, for every
\* odd PSF size and every psf_upscale >= 1
C23_FullContributionCoversWindow ==
    FullSampled =>
        /\ Contains(S_none, outcome.model0.integrate_mode)
              => outcome.call.status = "ok"
        /\ outcome.call.status = "ok" =>
              /\ Added.window = Requested
              /\ Added.n = GridShape(Requested, PixelScale)
              /\ Added.pixelscale = PixelScale
              /\ \A p \in Pix(outcome.call.image.n) :
                    WindowArea(WindowAnd(PixelBox(outcome.call.image, p), Requested)) = 0
                        => outcome.call.image.data[p]
                              = SampleImage(outcome.model0, target, outcome.before).data[p]

C23_Witness ==
    /\ FullSampled
    /\ outcome.call.status = "ok"
    /\ target.psf.n = <<MaxKernel, 3>>
    /\ target.psf_upscale = MaxUpscale
    /\ outcome.sample_window # NoArg
    /\ outcome.before # NoArg
    /\ outcome.call.image # outcome.before

\* the conditions under which integrate_model is to leave the image alone
IntegrationOff(m) ==
    m.integrate_recursion_depth <= 0 \/ Contains(S_none, m.integrate_mode)

\* what sampling without integration and without convolution adds to the
\* image: the analytic form over the working window
DirectSample ==
    LET base == SampleImage(outcome.model0, target, outcome.before)
    IN  ImageAdd(base,
                 Evaluated(outcome.model0, base.pixelscale,
                           WorkingWindow(base, outcome.sample_window)))

\* C5: integrate_model leaves the working image as it was when depth <= 0,
\* when integrate_mode contains 'none' or when the window does not overlap
\* the image; sampling with integration off returns the direct evaluation
C5_IntegrateNoOp ==
    (Sampled /\ outcome.call.status = "ok") =>
        /\ (\/ IntegrationOff(outcome.model0)
            \/ ~OverlapPositive(outcome.iw, outcome.call.direct.window))
                => outcome.call.integrated = outcome.call.direct
        /\ (IntegrationOff(outcome.model0) /\ outcome.model0.psf_mode = S_none)
                => outcome.call.image = DirectSample

C5_Witness ==
    /\ Sampled
    /\ outcome.call.status = "ok"
    /\ outcome.model0.psf_mode = S_none
    /\ outcome.model0.integrate_mode = S_none
    /\ outcome.model0.integrate_recursion_depth > 0
    /\ OverlapPositive(outcome.iw, outcome.call.direct.window)
    /\ ImageFlux(outcome.call.direct) > 0
    /\ outcome.call.image = DirectSample

\* what the call adds by itself: the same call on an accumulator of zeros
\* over the same window
Alone ==
    sample(outcome.model0, outcome.target0,
           [outcome.before EXCEPT !.data = [p \in DOMAIN @ |-> 0]],
           outcome.sample_window, outcome.iw).image

\* C16: sample(sample_image, sample_window) in the PSF modes 'none' and
\* 'full' leaves the target, the model, the sample_window argument and the
\* window of the accumulator as they were, and a call that returns has
\* added the model's contribution to what the accumulator held
C16_SampleTouchesOnlyAccumulator ==
    (/\ Sampled
     /\ outcome.before # NoArg
     /\ outcome.model0.psf_mode \in {S_none, S_full}) =>
        /\ target = outcome.target0
        /\ model = outcome.model0
        /\ outcome.windows.arg = outcome.sample_window
        /\ outcome.windows.image = outcome.before.window
        /\ outcome.call.image.window = outcome.before.window
        /\ outcome.call.status = "ok" =>
              \A p \in DOMAIN outcome.before.data :
                  outcome.call.image.data[p]
                      = outcome.before.data[p] + Alone.data[p]

C16_Witness ==
    /\ Sampled
    /\ outcome.model0.psf_mode = S_full
    /\ outcome.sample_window # NoArg
    /\ outcome.before # NoArg
    /\ outcome.call.status = "ok"
    /\ \E p \in DOMAIN outcome.before.data :
          /\ outcome.before.data[p] = 5
          /\ outcome.call.image.data[p] > 5

-----------------------------------------------------------------------------
(* Properties of Component_Model.jacobian (specification SpecJacobian) *)

Differentiated == outcome.op = "jacobian"

\* C3: jacobian() in mode 'finite' of a model with a free parameter returns
\* one plane per free parameter and does not end in an error
C3_FiniteSupported ==
    (/\ Differentiated
     /\ outcome.model0.jacobian_mode = "finite"
     /\ parameter_order(outcome.model0) # <<>>
     /\ outcome.model0.psf_mode = S_none) =>
        /\ outcome.call.status = "ok"
        /\ Len(outcome.call.planes) = Len(get_parameter_vector(outcome.model0))

\* C4: jacobian() in mode 'chunk' ends in NotImplementedError and the
\* parameter values after the call are those from before it, also when a
\* parameter vector was passed
C4_ChunkFailsFirst ==
    (Differentiated /\ outcome.model0.jacobian_mode = "chunk") =>
        /\ outcome.call.status = "NotImplementedError"
        /\ get_parameter_vector(model) = get_parameter_vector(outcome.model0)

-----------------------------------------------------------------------------
(* Properties of integrate_model (specification SpecIntegrate) *)

\* C6: every nested call of integrate_model runs with the depth of its
\* caller less one, so a call with depth d nests at most d levels below
\* itself and evaluates the analytic form at most d times
C6_DepthBoundsRecursion ==
    /\ \A i \in 1..Len(stack) :
          stack[i].depth = model.integrate_recursion_depth - (i - 1)
    /\ Len(stack) <= model.integrate_recursion_depth + 1
    /\ trace.evals <= model.integrate_recursion_depth

C6_Witness ==
    /\ IntegrateDone
    /\ model.integrate_recursion_depth = MaxDepth
    /\ trace.evals = MaxDepth
    /\ stack[1].image # trace.image0

\* the region frame i refines: its window inside its working image
Refined(i) == WindowAnd(stack[i].window, stack[i].image.window)

\* the nested call refines a finer grid: the caller's pixelscale divided by
\* integrate_factor
FinerGrid ==
    \A i \in 1..(Len(stack) - 1) :
        stack[i + 1].image.pixelscale * model.integrate_factor
            = stack[i].image.pixelscale

\* C20: each recursion of integrate_model strictly shrinks the refined
\* region and increases the resolution: the region the nested call refines
\* is smaller along both axes than the region its caller refines, and its
\* grid is integrate_factor times finer, whatever the size of the window
C20_RecursionShrinksRegion ==
    /\ FinerGrid
    /\ \A i \in 1..(Len(stack) - 1) : \A k \in 1..2 :
          Refined(i + 1).shape[k] < Refined(i).shape[k]

\* the pixels of the fine image that lie in a region
Covering(fine, box) ==
    { q \in Pix(fine.n) : WithinWindow(PixelBox(fine, q), box) }

\* what a call that got `before` and `window` and built the image `fine`
\* may leave in `after`: a pixel wholly inside the overlap is the sum of
\* the integrate_factor x integrate_factor fine pixels on it, a pixel
\* clear of the overlap is as before
Folded(before, window, fine, after) ==
    LET overlap == WindowAnd(window, before.window)
    IN  \A p \in Pix(before.n) :
           LET box == PixelBox(before, p)
           IN  /\ WithinWindow(box, overlap) =>
                    /\ Cardinality(Covering(fine, box))
                          = model.integrate_factor * model.integrate_factor
                    /\ after.data[p] = SumOver(fine.data, Covering(fine, box))
               /\ WindowArea(WindowAnd(box, overlap)) = 0 =>
                    after.data[p] = before.data[p]

\* the outermost call has ended, by returning or by an exception
IntegrateEnded == Len(stack) = 1 /\ Top.pc \in {"done", "raised"}

\* the outermost call did not return at once
Integrating ==
    ~IntegrateReturns(model, trace.image0, trace.window0,
                      model.integrate_recursion_depth)

\* the fine image of the outermost call as its nested call leaves it
FineImage ==
    LET integrate_image == IntegrateImage(model, trace.image0, trace.window0)
    IN  integrate_model(model, integrate_image,
                        RecursiveWindow(model, trace.window0, integrate_image),
                        NestedDepth(model.integrate_recursion_depth))

\* the window of the outermost call has its edges on pixel edges of the
\* working image
OnGrid ==
    \A k \in 1..2 : /\ trace.window0.origin[k] % PixelScale = 0
                    /\ trace.window0.shape[k] % PixelScale = 0

\* every return of a nested or outermost call folds the fine image into
\* its working image pixel by pixel
FoldsAtEveryLevel ==
    [][IntegrateResume =>
          Folded(stack[Len(stack) - 1].image, stack[Len(stack) - 1].window,
                 Top.image, stack'[Len(stack')].image)]_vars

\* a call with a window on the pixel grid returns and folds
FoldsOnGrid ==
    (IntegrateEnded /\ Integrating /\ OnGrid) =>
        /\ Top.pc = "done"
        /\ Folded(trace.image0, trace.window0, FineImage, Top.image)

\* C21: integrate_model with depth > 0, integration enabled and positive
\* overlap returns with every pixel of the working image inside the overlap
\* holding the sum of the fine samples covering it (replaced, not added
\* to) and every pixel outside the overlap as it was before the call
C21_IntegrateReplacesOverlap ==
    (IntegrateEnded /\ Integrating) =>
        /\ Top.pc = "done"
        /\ Folded(trace.image0, trace.window0, FineImage, Top.image)

\* where along axis k the center of the window of nested frame i lies on
\* the grid of the image that frame works on (its caller's integrate
\* image): the offset into a pixel, in units
CenterOffset(i, k) ==
    (WindowCenter(stack[i].window)[k] - stack[i].image.window.origin[k])
        % stack[i].image.pixelscale

\* the size of the window of nested frame i along axis k, in fine pixels
FinePixels(i, k) == stack[i].window.shape[k] \div stack[i].image.pixelscale

\* both edges of the window of nested frame i lie on pixel edges of the
\* image it works on
EdgesOnGrid(i) ==
    \A k \in 1..2 :
        /\ (stack[i].window.origin[k] - stack[i].image.window.origin[k])
              % stack[i].image.pixelscale = 0
        /\ (WindowEnd(stack[i].window)[k] - stack[i].image.window.origin[k])
              % stack[i].image.pixelscale = 0

\* C22: the window integrate_model passes to its nested call is aligned
\* with the fine grid of the caller's integrate image: along each axis it
\* is an odd number of fine pixels wide when its center lies on the center
\* of a fine pixel and an even number when its center lies on a fine-pixel
\* edge, and both its edges lie on fine-pixel edges
C22_NestedWindowAligned ==
    \A i \in 2..Len(stack) :
        /\ \A k \in 1..2 :
              /\ stack[i].window.shape[k] % stack[i].image.pixelscale = 0
              /\ CenterOffset(i, k) = stack[i].image.pixelscale \div 2
                    => FinePixels(i, k) % 2 = 1
              /\ CenterOffset(i, k) = 0 => FinePixels(i, k) % 2 = 0
        /\ EdgesOnGrid(i)

C22_Witness ==
    /\ Len(stack) >= 2
    /\ \E k \in 1..2 : /\ CenterOffset(2, k) = stack[2].image.pixelscale \div 2
                       /\ FinePixels(2, k) > 1
    /\ \E k \in 1..2 : CenterOffset(2, k) = 0
    /\ \E k \in 1..2 :
          /\ stack[2].window.shape[k] < stack[2].image.window.shape[k]
          /\ stack[2].window.origin[k] > stack[2].image.window.origin[k]

-----------------------------------------------------------------------------
(* Properties of what a Group_Model shares (specification SpecOwner) *)

\* Group_Model.initialize has been called and went past sync_target
GroupInitializeRan ==
    outcome.op = "initialize" /\ outcome.call.status # "IndexError"

\* the image the call worked from
InitializedFrom ==
    IF outcome.targetArg = NoArg THEN group.target ELSE outcome.targetArg

\* what the models before sub-model i have taken out of the copy
RECURSIVE Subtracted(_, _)
Subtracted(row, models) ==
    IF models = <<>> THEN row
    ELSE Subtracted([c \in 1..MaxCells |-> row[c] - sub_sample(Head(models))[c]],
                    Tail(models))

\* C24: after Group_Model.initialize() every sub-model has the group's
\* target as its target and no image of the caller is modified: the
\* sub-models are initialized in list order, each on a copy of the target
\* from which the samples of those before it have been subtracted, and the
\* target holds the same pixels after the call as before
C24_InitializeSharesTargetOnly ==
    GroupInitializeRan =>
        /\ group.target # NoRef
        /\ \A i \in 1..Len(group.model_list) :
              group.model_list[i].target = group.target
        /\ target = outcome.store0
        /\ \A i \in 1..Len(outcome.call.given) :
              outcome.call.given[i]
                  = Subtracted(outcome.store0[InitializedFrom.at],
                               SubSeq(group.model_list, 1, i - 1))

C24_Witness ==
    /\ GroupInitializeRan
    /\ outcome.call.status = "ok"
    /\ Len(group.model_list) = MaxSubs
    /\ outcome.before.model_list[2].target # group.target
    /\ outcome.call.given[2] # outcome.call.given[1]

\* C30: once psf_mode has been assigned on a Group_Model, every sub-model
\* has the group's psf_mode, whatever psf_mode assignments and add_model
\* calls follow
C30_SubModelsFollowPsfMode ==
    group.psf_mode # NoMode =>
        \A i \in 1..Len(group.model_list) :
            group.model_list[i].psf_mode = group.psf_mode.value

-----------------------------------------------------------------------------
(* Properties of Target_Image (specification SpecTarget) *)

OddShape(plane) == \A k \in 1..2 : plane.n[k] % 2 = 1

Flags(img) == <<has_variance(img), has_mask(img), has_psf(img)>>

Total(plane) == SumOver(plane.data, Pix(plane.n))

\* C11: a variance or mask that is set has the shape of the data, in every
\* image reached by construction, set_variance, set_mask, get_window and
\* reduce; set_variance and set_mask with an array of another shape fail
\* and leave the image with the plane it held
C11_PlanesMatchData ==
    /\ has_variance(target) => target.variance.n = target.data.n
    /\ has_mask(target) => target.mask.n = target.data.n
    /\ (/\ outcome.op \in {"set_variance", "set_mask"}
        /\ outcome.arg # NoPlane
        /\ outcome.arg.n # outcome.before.data.n) =>
            /\ outcome.status = "AssertionError"
            /\ target = outcome.before

C11_Witness ==
    /\ outcome.op = "set_variance"
    /\ outcome.arg # NoPlane
    /\ outcome.arg.n # outcome.before.data.n
    /\ has_variance(outcome.before)
    /\ has_mask(outcome.before)
    /\ target.data.n # <<MaxSide, MaxSide>>
    /\ target.variance = outcome.before.variance

\* C12: a PSF that is set has an odd number of pixels along both axes, in
\* the image and in every image obtained from it by copy, get_window,
\* reduce and load; set_psf with a kernel that is even along an axis fails
\* and leaves the image with the PSF it held
C12_PsfOdd ==
    /\ has_psf(target) => OddShape(target.psf)
    /\ (outcome.op # "none" /\ outcome.status = "ok" /\ has_psf(outcome.result))
            => OddShape(outcome.result.psf)
    /\ (/\ outcome.op = "set_psf"
        /\ outcome.arg # NoPlane
        /\ ~OddShape(outcome.arg)) =>
            /\ outcome.status = "AssertionError"
            /\ target = outcome.before

C12_Witness ==
    /\ outcome.op = "set_psf"
    /\ outcome.arg # NoPlane
    /\ ~OddShape(outcome.arg)
    /\ has_psf(outcome.before)
    /\ target.psf = outcome.before.psf

\* reading the planes, copy() and get_window() keep has_variance, has_mask
\* and has_psf as they are
FlagsKeptInMemory ==
    /\ outcome.op = "read" => Flags(target) = Flags(outcome.before)
    /\ (outcome.op \in {"copy", "get_window"} /\ outcome.status = "ok") =>
            Flags(outcome.result) = Flags(outcome.before)

\* C13: for variance, mask and PSF the difference between a plane that is
\* absent and one that is set is never lost: reading a plane does not set
\* it, and the image obtained by copy(), by get_window() or by saving and
\* loading has the has_variance, has_mask and has_psf of the original
C13_AbsentStaysAbsent ==
    /\ FlagsKeptInMemory
    /\ (outcome.op = "load" /\ outcome.status = "ok") =>
            Flags(outcome.result) = Flags(outcome.before)

\* C13 as the code has it: the flags come back from the file when it is
\* loaded into a new Target_Image; load() into an image that holds a
\* plane keeps that plane when the file has none of its tag
C13_AbsentStaysAbsentInNewImage ==
    /\ FlagsKeptInMemory
    /\ (outcome.op = "load" /\ outcome.status = "ok" /\ outcome.arg = NoPlane) =>
            Flags(outcome.result) = Flags(outcome.before)

C13_Witness ==
    /\ outcome.op = "load"
    /\ outcome.arg = NoPlane
    /\ outcome.status = "ok"
    /\ outcome.before.variance = Zeros(outcome.before.data.n)
    /\ ~has_mask(outcome.before)
    /\ Flags(outcome.result) = <<TRUE, FALSE, FALSE>>

\* every pixel of the binned plane is the sum of its scale x scale block
\* and the plane as a whole sums to what the original summed to
Conserved(reduced, plane, scale) ==
    /\ \A p \in Pix(reduced.n) :
          reduced.data[p] =
              SumOver(plane.data,
                      ((p[1] * scale)..(p[1] * scale + scale - 1))
                          \X ((p[2] * scale)..(p[2] * scale + scale - 1)))
    /\ Total(reduced) = Total(plane)

\* C14: reduce(scale) bins by summing and conserves flux: each pixel of the
\* reduced variance and of the reduced PSF is the sum of its scale x scale
\* source pixels, and the reduced plane has the total of the original, for
\* every shape and every scale >= 1
C14_ReduceConservesFlux ==
    (outcome.op = "reduce" /\ outcome.status = "ok") =>
        /\ has_variance(outcome.before) =>
              Conserved(outcome.result.variance, outcome.before.variance, outcome.arg)
        /\ has_psf(outcome.before) =>
              Conserved(outcome.result.psf, outcome.before.psf, outcome.arg)

\* C17: blank_copy() returns an image with the mask, PSF, psf_upscale and
\* variance of the original, set or not as in the original
C17_BlankCopyKeepsProperties ==
    (outcome.op = "blank_copy" /\ outcome.status = "ok") =>
        /\ outcome.result.mask = outcome.before.mask
        /\ outcome.result.psf = outcome.before.psf
        /\ outcome.result.psf_upscale = outcome.before.psf_upscale
        /\ outcome.result.variance = outcome.before.variance

-----------------------------------------------------------------------------
(* Properties of Component_Model.initialize (specification SpecCenter) *)

\* C15: when the pixels of the center-of-mass search box sum to zero,
\* initialize() returns normally and the model's center is the center of
\* its window
C15_ZeroDenominatorFallsBack ==
    (/\ outcome.op = "initialize"
     /\ outcome.call.com # NoArg
     /\ outcome.call.com.degenerate) =>
        /\ outcome.call.status = "ok"
        /\ model.center = WindowCenterOf(target)

\* center_of_mass was called and returned
SearchReturned ==
    /\ outcome.op = "initialize"
    /\ outcome.call.com # NoArg
    /\ outcome.call.com.status = "ok"

\* C25: the center-of-mass search of initialize iterates until it moves by
\* less than a pixel: center_of_mass returns either the initial center
\* unchanged, when the search box reaches the edge of the image, or a
\* center whose last update moved it by less than one pixel
C25_SearchEndsWithinAPixel ==
    SearchReturned =>
        \/ /\ outcome.call.com.how = "edge"
           /\ outcome.call.com.center = Finite(coord_to_index(WindowCenterOf(target)))
        \/ outcome.call.com.moved < CenterUnit

\* a search that left its loop by the test of line 30 ends within a tenth
\* of a pixel
ConvergedWithinATenth ==
    (SearchReturned /\ outcome.call.com.how = "converged") =>
        10 * outcome.call.com.moved < CenterUnit

-----------------------------------------------------------------------------
(* Properties of the optimizers (specifications SpecIter and SpecMCMC) *)

\* C18: max_iter is the largest number of iterations of Iter.fit(): it
\* calls step() at most max_iter times, and a fit that ends without having
\* converged ends with the message 'fail max iterations reached'
C18_MaxIterBoundsSteps ==
    /\ trace.steps <= trace.max_iter
    /\ (trace.pc = "done" /\ trace.message # <<"success">>
                           /\ "fail interrupted" \notin Range(trace.message)) =>
            trace.message = <<"fail max iterations reached">>

\* C26: whenever Iter.fit() returns, by success, at the iteration limit or
\* after a KeyboardInterrupt raised at any point, every sub-model's target
\* is the group model's target: the residual target sub_step installs
\* never stays on a sub-model
C26_TargetsRestored ==
    trace.pc = "done" =>
        \A i \in 1..Len(group.model_list) :
            group.model_list[i].target = group.target

\* a fit that was not interrupted leaves every sub-model on the group's
\* target
RestoredUnlessInterrupted ==
    (trace.pc = "done" /\ "fail interrupted" \notin Range(trace.message)) =>
        \A i \in 1..Len(group.model_list) :
            group.model_list[i].target = group.target

\* a fit whose message holds 'success' took more than two steps, the last
\* two of which both passed the convergence test
SuccessAfterTwoPasses ==
    "success" \in Range(trace.message) =>
        /\ trace.steps > 2
        /\ trace.passed[trace.steps]
        /\ trace.passed[trace.steps - 1]
        /\ trace.count_finish >= 2

\* the counter counts the passes since the last step that failed the test
CountsConsecutivePasses ==
    \A k \in 0..Len(trace.passed) :
        (/\ k = trace.count_finish
         /\ \A j \in (Len(trace.passed) - k + 1)..Len(trace.passed) : trace.passed[j]
         /\ k < Len(trace.passed) => ~trace.passed[Len(trace.passed) - k])
        \/ k # trace.count_finish

\* C27: Iter.fit() ends with 'success' only if the convergence test passed
\* in both of the two most recent step() calls and more than two steps were
\* taken, and its message receives exactly one of 'success', 'fail max
\* iterations reached' and 'fail interrupted' per fit() call
C27_OneMessagePerFit ==
    /\ SuccessAfterTwoPasses
    /\ trace.pc = "done" => Len(trace.message) = 1

\* C19: every call of MHMCMC.fit() returns having taken exactly nsamples
\* sampling steps (max_iter when nsamples is None) and recorded one chain
\* entry per step: the chain holds nsamples entries after a call that
\* restarted it and nsamples more than before after a call that did not,
\* for every nsamples >= 0
C19_ChainCountsSteps ==
    (trace.pc = "idle" /\ trace.call # NoArg) =>
        /\ trace.status = "ok"
        /\ trace.call.steps = trace.call.nsamples
        /\ Len(trace.chain) =
              (IF trace.call.restart_chain THEN 0 ELSE trace.call.previous)
                  + trace.call.nsamples

\* the pair step() returned in the last pass of the loop
Returned == <<trace.call.state, trace.call.chi2>>

\* C28: MHMCMC.step(state, chi2) returns the proposal with the proposal's
\* chi2 when it accepts and the state with its chi2 unchanged when it
\* rejects, never a mixed pair; a proposal whose chi2 is not above the
\* current chi2 is accepted whatever the draw, and one with a larger chi2
\* exactly when log(u) < (chi2 - proposal_chi2) / 2
C28_StepReturnsConsistentPair ==
    (trace.pc = "sampling" /\ trace.last # NoArg) =>
        LET did == trace.last
            taken == Returned = <<did.proposal_state, did.proposal_chi2>>
            kept == Returned = <<did.state, did.chi2>>
        IN  /\ taken \/ kept
            /\ did.proposal_chi2 <= did.chi2 => taken
            /\ did.proposal_chi2 > did.chi2 =>
                  (taken <=> LogLess(did.logu, did.chi2 - did.proposal_chi2))

C28_Witness ==
    /\ trace.pc = "sampling"
    /\ trace.last # NoArg
    /\ trace.last.proposal_chi2 > trace.last.chi2
    /\ trace.last.logu # MinusInf
    /\ Returned = <<trace.last.proposal_state, trace.last.proposal_chi2>>

\* after every pass of the loop the model holds the state of the chain
ModelFollowsChain ==
    (trace.pc = "sampling" /\ trace.call.steps > 0) =>
        /\ model.parameters = trace.call.state
        /\ trace.chain[Len(trace.chain)] = Physical(trace.call.state)
        /\ ~trace.last.accept => model.parameters # trace.last.proposal_state

\* fit() has returned
FitReturned == trace.pc = "idle" /\ trace.call # NoArg /\ trace.status = "ok"

\* C29 as stated: after every completed pass of the loop of MHMCMC.fit, and
\* when fit returns, the model's parameter values are those of the current
\* chain state, which is the last chain entry and, at return, current_state,
\* never those of a rejected proposal
C29_ModelHoldsChainState ==
    /\ ModelFollowsChain
    /\ FitReturned =>
          /\ model.parameters = trace.current_state
          /\ trace.chain[Len(trace.chain)] = Physical(trace.current_state)

\* C29, amended: at return the model holds current_state, and that is the
\* last chain entry when the call took at least one step
C29_ModelHoldsChainStateAfterSteps ==
    /\ ModelFollowsChain
    /\ FitReturned =>
          /\ model.parameters = trace.current_state
          /\ trace.call.steps > 0 =>
                trace.chain[Len(trace.chain)] = Physical(trace.current_state)

C29_Witness ==
    /\ FitReturned
    /\ trace.call.steps = MaxSamples
    /\ trace.last # NoArg
    /\ ~trace.last.accept
    /\ trace.fits = MaxFits
    /\ ~trace.call.restart_chain

-----------------------------------------------------------------------------
(* Properties of Group_Model (specification SpecGroup) *)

\* C7: the group's window is the union of the windows of the sub-models
\* that are not locked, in every state
C7_WindowIsUnionOfUnlocked ==
    group.window = UnionWindow(group.model_list, NoWindow)

\* the value img holds at sky coordinate c, zero outside its window
ValueAt(img, c) ==
    LET q == <<(c[1] - img.window.origin[1]) \div img.pixelscale,
               (c[2] - img.window.origin[2]) \div img.pixelscale>>
    IN  IF q \in Pix(img.n) THEN img.data[q] ELSE 0

\* sub-model i sampled on its own
OwnSample(i) ==
    sample(group.model_list[i], target, NoArg, NoArg, group.model_list[i].window).image

GroupSampled == outcome.op = "gsample" /\ group.window # NoWindow

\* C8: every pixel of group.sample() is the sum of the sub-models' own
\* samples at that pixel, its flux is the sum of their fluxes, and it is
\* the image that sampling every sub-model into one zero image gives
C8_GroupSampleIsSum ==
    GroupSampled =>
        LET own == [i \in 1..Len(group.model_list) |-> OwnSample(i)]
            img == outcome.call.image
        IN  /\ outcome.call.status = "ok"
            /\ img.window = group.window
            /\ \A p \in Pix(img.n) :
                  img.data[p] =
                    SumSeq([i \in 1..Len(own) |-> ValueAt(own[i], PixelCenter(img, p))])
            /\ ImageFlux(img) = SumSeq([i \in 1..Len(own) |-> ImageFlux(own[i])])
            /\ outcome.shared.status = "ok"
            /\ outcome.shared.image = img

GroupDifferentiated ==
    /\ outcome.op = "gjacobian"
    /\ outcome.before.window # NoWindow

\* the plane of a sub-model as the group's stack is to hold it: the local
\* plane inside the index range of the sub-model's window, zero elsewhere
PlaneInGroup(g, m, plane) ==
    LET indices == GetIndices(m.window, g.window, target.pixelscale)
    IN  [p \in Pix(GridShape(g.window, target.pixelscale)) |->
            IF InRange(indices, p)
            THEN plane.data[<<p[1] - indices[1].lo, p[2] - indices[2].lo>>]
            ELSE 0]

\* C9: group.jacobian(parameters) returns one plane per entry of
\* `parameters`; the sub-models' planes lie in contiguous ranges
\* [vstart, vend) in model_list order that cover all planes, and each plane
\* is the sub-model's local plane inside the index range of its window and
\* zero outside
C9_GroupJacobianScatters ==
    GroupDifferentiated =>
        LET g == outcome.before
            call == outcome.call
            n == Len(g.model_list)
        IN  /\ call.status = "ok"
            /\ Len(call.full_jac) = Len(outcome.parameters)
            /\ Len(call.ranges) = n
            /\ n > 0 => call.ranges[1][1] = 0 /\ call.ranges[n][2] = Len(outcome.parameters)
            /\ \A i \in 1..n : call.ranges[i][1] <= call.ranges[i][2]
            /\ \A i \in 1..(n - 1) : call.ranges[i + 1][1] = call.ranges[i][2]
            /\ \A i \in 1..n :
                  LET local == jacobian(g.model_list[i], target,
                                        [vec |-> Slice(outcome.parameters,
                                                       call.ranges[i][1],
                                                       call.ranges[i][2])],
                                        g.model_list[i].window)
                  IN  /\ local.status = "ok"
                      /\ Len(local.planes) = call.ranges[i][2] - call.ranges[i][1]
                      /\ \A ip \in 1..Len(local.planes) :
                            call.full_jac[call.ranges[i][1] + ip] =
                                PlaneInGroup(g, g.model_list[i], local.planes[ip])

\* every (sub-model, parameter) pair of the group
ParameterPairs ==
    { pr \in (1..Len(group.model_list)) \X {"center", "amp"} :
        pr[2] \in Range(ParameterNames(group.model_list[pr[1]])) }

NoRepeats(keys) == \A i, j \in 1..Len(keys) : i # j => keys[i] # keys[j]

\* C10: after any sequence of add_model calls every (sub-model, parameter)
\* pair has a key '<name>|<parameter>' of its own in `parameters` and in
\* get_parameters_representation, no entry having been overwritten, and no
\* model was constructed with a '|' in its name
C10_KeysNeverCollide ==
    /\ Cardinality(DOMAIN parameters(group)) = Cardinality(ParameterPairs)
    /\ \A pr \in ParameterPairs :
          parameters(group)[Key(group.model_list[pr[1]].name, pr[2])] = pr
    /\ NoRepeats(ParameterKeys(group.model_list))
    /\ NoRepeats(RepresentationKeys(group.model_list))
    /\ \A m \in Constructed : ~Contains(<<"|">>, m.name)

=============================================================================
